---- MODULE Spec2Model ----
(***************************************************************************)
(* Crawl-and-cache benchmark pipeline of scrappers_comparision.            *)
(*                                                                         *)
(*   Spec      BenchmarkRunner.run over a shared output directory          *)
(*             (src/src/pipeline/runner.py)                                *)
(*   SpecCrawl BaseCrawler.crawl of one domain by one backend              *)
(*             (src/src/crawlers/base.py)                                  *)
(*   SpecRate  the per-host rate limiter of concurrent page fetches        *)
(*             (src/src/crawlers/base.py)                                  *)
(*   SpecFan   the domain loop of run() and the fan-out of _crawl_domain   *)
(*             as tasks (src/src/pipeline/runner.py)                       *)
(*   SpecCache the artifact cache under saves and lookups by any spelling  *)
(*             of a domain (src/src/pipeline/runner.py)                    *)
(*   SpecCompare  run() with llm_compare over a filled output directory    *)
(*             (src/src/pipeline/runner.py, src/src/llm/value_compare.py)  *)
(*   SpecScore the scorer of one feature                                   *)
(*             (src/src/evaluator/comparator.py)                           *)
(*   SpecItems one run of run() over a filled output directory, with       *)
(*             crawls that fetched part of a site                          *)
(*   SpecRateFair  SpecRate when every fetch and every sleep ends          *)
(***************************************************************************)
EXTENDS Integers, Sequences, FiniteSets, TLC

(***************************************************************************)
(* Bounds of the model.                                                    *)
(***************************************************************************)
MaxRuns == 2

(***************************************************************************)
(* Values shared by the sub-models.                                        *)
(***************************************************************************)
None == "None"

\* src/src/types.py CrawlerType: one remote-API backend and one local backend.
API_CRAWLERS == {"firecrawl"}
LOCAL_CRAWLERS == {"custom_html"}
CrawlerList == <<"firecrawl", "custom_html">>

\* src/src/types.py LLMType
LLMLists == {<<"claude", "openai">>}

\* src/src/models.py FEATURES, cut to two features.
FEATURES == <<"language", "patents">>

\* A domain string: scheme prefix, optional "www.", host, optional trailing "/".
DomainA == [scheme |-> "https://", www |-> FALSE, host |-> "a.com", slash |-> FALSE]
DomainList == <<DomainA>>

\* verified_data.jsonl: a.com has a record in which language is present with
\* value "en" and patents is absent.
GroundTruth == [h \in {"a.com"} |->
                  [language |-> [present |-> TRUE, value |-> "en"],
                   patents  |-> [present |-> FALSE, value |-> None]]]

RangeOf(s) == {s[i] : i \in 1..Len(s)}

RECURSIVE SumSeq(_)
SumSeq(s) == IF s = <<>> THEN 0 ELSE Head(s) + SumSeq(Tail(s))

(***************************************************************************)
(* Pipeline state.                                                         *)
(***************************************************************************)
VARIABLES
  files,          \* output_dir/intermediate: key -> <<>> (no file) or <<payload>>
  pc,             \* position of run(): "idle", "domain", "items", "llms"
  runNo,          \* number of run() invocations started; also the clock
  use_cache_only, \* argument of the current run
  save_intermediate,
  llms,
  dIdx,           \* index of the domain being processed
  crawl_results,  \* Phase 1 output for the current domain
  itemIdx,        \* index into crawl_results
  parsed,         \* ParsedContent of the current item
  llmIdx,         \* index into llms for the current item
  all_results,    \* EvaluationResults accumulated by the current run
  report,         \* <<>> or <<BenchmarkReport>> of the last completed run
  \* observation of the calls the pipeline issues
  extractCalls,   \* key -> extractor calls over all runs
  runExtract,     \* key -> extractor calls in the current run
  runCtor,        \* get_crawler calls in the current run
  runFetch,       \* backend -> crawler.crawl invocations in the current run
  used,           \* key -> <<>> or <<extraction and crawl result used in this run>>
  hadArtifact,    \* keys whose artifact existed when the combination was processed
  raisedAt,       \* keys whose processing raised in this run
  firstSaved,     \* key -> <<>> or <<ExtractedFeatures as first written>>
  allSaved        \* every run so far saved intermediates and no write failed

runVars == <<files, pc, runNo, use_cache_only, save_intermediate, llms, dIdx,
             crawl_results, itemIdx, parsed, llmIdx, all_results, report,
             extractCalls, runExtract, runCtor, runFetch, used, hadArtifact,
             raisedAt, firstSaved, allSaved>>

(***************************************************************************)
(* State of one BaseCrawler.crawl call.                                    *)
(***************************************************************************)
VARIABLES
  site,           \* raw links of the homepage the backend returns
  pages,          \* page allow-list argument; <<>> when none is given
  max_pages,      \* page budget argument
  max_retries,    \* self.max_retries
  cpc,            \* position of crawl(): "start", "fetch", "done"
  idx,            \* 0: the homepage; i >= 1: the i-th URL of the fetch list
  attempt,        \* attempt number of the retry loop for the current URL
  page_contents,  \* ordered mapping page name -> content
  errors,         \* the errors list of crawl()
  discovered,     \* internal links as _discover_links returned them
  external_links, \* external links as _discover_links returned them
  fetch_list,     \* "discovered" after reordering, filtering and capping
  result,         \* <<>> or <<CrawlResult>> once crawl() has returned
  \* observation of the calls crawl() issues
  log,            \* fetch attempts in the order they were issued
  sleeps          \* backoff sleeps in the order they were taken

crawlVars == <<site, pages, max_pages, max_retries, cpc, idx, attempt,
               page_contents, errors, discovered, external_links, fetch_list,
               result, log, sleeps>>

(***************************************************************************)
(* State of the rate limiter and of the tasks that fetch through it.       *)
(***************************************************************************)
VARIABLES
  rtask,          \* task -> backend and host of the URL it fetches
  rpc,            \* task -> position in _crawl_with_retries_impl
  att,            \* task -> attempt number of the retry loop
  http,           \* task -> requests sent by the current crawl_url call
  wake,           \* task -> time left of its current sleep
  lock,           \* host -> holder of _domain_locks[host], or "free"
  waiters,        \* host -> tasks waiting for the lock, first come first
  elapsed,        \* host -> time.time() - _last_request_time[host], capped
  crawl_locals,   \* object -> the page_contents and errors it holds
  \* observation
  since_request,  \* host -> time since a request was last sent to it, capped
  call_gap,       \* host -> least time between two calls of crawl_url
  request_gap     \* host -> least time between two requests sent

rateVars == <<rtask, rpc, att, http, wake, lock, waiters, elapsed,
              crawl_locals, since_request, call_gap, request_gap>>

(***************************************************************************)
(* State of the domain loop of run() seen as tasks (runner.py 49-159,      *)
(* 301-372).                                                               *)
(***************************************************************************)
VARIABLES
  fan_mode,        \* "live", "cached" (use_cache_only) or "compare" (llm_compare)
  dom,             \* index of the domain the loop of run() is at
  fan_pc,          \* position within the loop body
  crawl_task,      \* <<domain index, backend>> -> status of its crawl()
  combo_task,      \* <<domain index, backend>> -> status of its combination
  backend_outcome, \* backend -> how its construction or crawl ended
  gathering,       \* api_tasks: the remote backends handed to gather
  local_idx,       \* index into local_crawlers
  fan_results,     \* the results list of _crawl_domain
  item_idx,        \* index into crawl_results
  \* observation
  arrival          \* gathered backends in the order their crawl() ended

fanVars == <<fan_mode, dom, fan_pc, crawl_task, combo_task, backend_outcome,
             gathering, local_idx, fan_results, item_idx, arrival>>

(***************************************************************************)
(* State of the artifact cache seen as a store (runner.py 409-507).        *)
(***************************************************************************)
VARIABLES
  cache_files,    \* output_dir/intermediate: path -> <<>> or <<payload>>
  cache_puts,     \* number of saves so far; also the clock
  last_put,       \* <<>> or <<the artifact of the latest save>>
  put_paths,      \* paths written by a save so far
  asked,          \* <<>> or <<domain, backend, extractor of the latest lookup>>
  hit             \* what the latest lookup returned

cacheVars == <<cache_files, cache_puts, last_put, put_paths, asked, hit>>

(***************************************************************************)
(* State of the runs in comparison mode (runner.py 40-47, 54-155).         *)
(***************************************************************************)
VARIABLES
  cmp_files,       \* artifact path -> <<>> or <<payload>>, left by earlier runs
  cmp_args,        \* <<>> or the arguments of the last run(llm_compare=True)
  cmp_pc,          \* "idle", "raised" (run() raised) or "returned"
  cmp_runs,        \* runs entered so far
  cmp_report,      \* <<>> or <<the report the last run returned>>
  \* observation
  cmp_calls        \* crawler fetches, extractor calls and comparison calls
                   \* the comparison runs have issued

cmpVars == <<cmp_files, cmp_args, cmp_pc, cmp_runs, cmp_report, cmp_calls>>

(***************************************************************************)
(* State of one call of the scorer (evaluator/comparator.py 111-141).      *)
(***************************************************************************)
VARIABLES
  sc_in,           \* the arguments of _score_feature
  sc_out           \* <<>> or <<the score, in tenths>>

scoreVars == <<sc_in, sc_out>>

vars == <<runVars, crawlVars, rateVars, fanVars, cacheVars, cmpVars, scoreVars>>

\* No call of the scorer is modelled.
NoScore == sc_in = <<>> /\ sc_out = <<>>

\* No comparison run is modelled.
NoCompare ==
  /\ cmp_files = <<>> /\ cmp_args = <<>> /\ cmp_pc = "off" /\ cmp_runs = 0
  /\ cmp_report = <<>> /\ cmp_calls = <<>>

\* The cache is not modelled as a store.
NoCache ==
  /\ cache_files = <<>> /\ cache_puts = 0 /\ last_put = <<>>
  /\ put_paths = {} /\ asked = <<>> /\ hit = <<>>

\* The domain loop is not modelled as tasks.
NoFan ==
  /\ fan_mode = "off" /\ dom = 0 /\ fan_pc = "off"
  /\ crawl_task = <<>> /\ combo_task = <<>> /\ backend_outcome = <<>>
  /\ gathering = <<>> /\ local_idx = 0 /\ fan_results = <<>>
  /\ item_idx = 0 /\ arrival = <<>>

\* No fetch task is modelled.
NoRate ==
  /\ rtask = <<>> /\ rpc = <<>> /\ att = <<>> /\ http = <<>>
  /\ wake = <<>> /\ lock = <<>> /\ waiters = <<>> /\ elapsed = <<>>
  /\ crawl_locals = <<>>
  /\ since_request = <<>> /\ call_gap = <<>> /\ request_gap = <<>>

\* No crawl is modelled: the state of the crawl variables in the other
\* specifications.
NoCrawl ==
  /\ site = <<>> /\ pages = <<>> /\ max_pages = 0 /\ max_retries = 0
  /\ cpc = "off" /\ idx = 0 /\ attempt = 0
  /\ page_contents = <<>> /\ errors = <<>>
  /\ discovered = <<>> /\ external_links = <<>> /\ fetch_list = <<>>
  /\ result = <<>> /\ log = <<>> /\ sleeps = <<>>

\* No pipeline run is modelled: the state of the pipeline variables in the
\* other specifications.
NoRun ==
  /\ files = <<>> /\ pc = "off" /\ runNo = 0
  /\ use_cache_only = FALSE /\ save_intermediate = FALSE
  /\ llms = <<>> /\ dIdx = 0 /\ crawl_results = <<>> /\ itemIdx = 0
  /\ parsed = <<>> /\ llmIdx = 0 /\ all_results = <<>> /\ report = <<>>
  /\ extractCalls = <<>> /\ runExtract = <<>> /\ runCtor = 0
  /\ runFetch = <<>> /\ used = <<>> /\ hadArtifact = {} /\ raisedAt = {}
  /\ firstSaved = <<>> /\ allSaved = FALSE

(***************************************************************************)
(* Cache keys (runner.py slugify / domain_key).                            *)
(***************************************************************************)
\* domain.replace("https://", "").replace("http://", "") then slugify: the
\* scheme goes, a trailing "/" becomes "_" and is stripped, "www." stays.
domain_key(d) == [www |-> d.www, host |-> d.host]

\* comparator._find_ground_truth: scheme, "www." and trailing "/" removed.
find_ground_truth(d) ==
  IF d.host \in DOMAIN GroundTruth THEN <<GroundTruth[d.host]>> ELSE <<>>

DomainKeys == {domain_key(DomainList[i]) : i \in 1..Len(DomainList)}
Keys == DomainKeys \X RangeOf(CrawlerList) \X {"claude", "openai"}

(***************************************************************************)
(* Crawl results as the pipeline sees them.                                *)
(***************************************************************************)
CrawlOutcomes == {"ok", "fail"}

\* The CrawlResult of one backend: "ok" is a crawl with content, "fail" a crawl
\* whose every fetch failed (error set, nothing fetched), "partial" a crawl
\* that fetched the homepage and failed on another page (content and error,
\* base.py 92-104), "raise" the failure result _crawl_domain builds from an
\* exception (runner.py 327-334, 363-370).
CrawlResultOf(d, c, outcome, now) ==
  [domain |-> d, crawler |-> c,
   raw_content |-> IF outcome \in {"ok", "partial"} THEN "doc" ELSE "",
   page_contents |-> IF outcome \in {"ok", "partial"} THEN <<"homepage">> ELSE <<>>,
   crawled_at |-> now,
   homepage_internal_links |-> IF outcome = "raise" THEN 0 ELSE 3,
   homepage_total_links |-> IF outcome = "raise" THEN 0 ELSE 4,
   homepage_external_links |-> IF outcome = "raise" THEN 0 ELSE 1,
   homepage_internal_links_crawled |-> IF outcome = "raise" THEN 0 ELSE 2,
   error |-> CASE outcome = "ok" -> None
               [] outcome \in {"fail", "partial"} -> "page error"
               [] OTHER -> "exception"]

\* MarkdownParser.parse
parse(cr) ==
  [domain |-> cr.domain, crawler |-> cr.crawler,
   markdown |-> IF cr.page_contents = <<>> THEN "" ELSE "md",
   page_sections |-> cr.page_contents,
   char_count |-> IF cr.page_contents = <<>> THEN 0 ELSE 2]

(***************************************************************************)
(* Extraction (llm/base.py) and evaluation (evaluator/comparator.py).      *)
(***************************************************************************)
ExtractOutcomes == {"good", "llm_error"}

extract(p, llm, outcome, now) ==
  [domain |-> p.domain, crawler |-> p.crawler, llm |-> llm,
   extracted_at |-> now,
   features |-> CASE outcome = "good"  -> [language |-> "en", patents |-> None]
                  [] outcome = "wrong" -> [language |-> "fr", patents |-> "p1"]
                  [] OTHER             -> [language |-> None, patents |-> None],
   raw_llm_response |-> IF outcome = "llm_error" THEN "" ELSE outcome,
   error |-> IF outcome = "llm_error" THEN "llm call failed" ELSE None]

\* A feature value: None, a str or a list of str.  A str is the sequence of
\* its words and of " " for each run of white space between or around them;
\* the words used are such that none is part of another.
NoneValue == [kind |-> "none", v |-> <<>>]
Text(s) == [kind |-> "str", v |-> <<s>>]
ListOf(items) == [kind |-> "list", v |-> items]

\* A one-word value of the pipeline model as a feature value.
Value(x) == IF x = None THEN NoneValue ELSE Text(<<x>>)

\* src/src/models.py 175: FEATURE_TYPES of the features used here.
FEATURE_TYPES ==
  [early_access |-> "literal_bool", product_category |-> "literal_enum",
   language |-> "text", patents |-> "text", industries |-> "list"]

\* str.lower()
LowerWord(w) ==
  CASE w = "Unknown" -> "unknown"
    [] w = "B2B" -> "b2b"
    [] w = "SMB" -> "smb"
    [] OTHER -> w
lower(s) == [i \in 1..Len(s) |-> LowerWord(s[i])]

\* str.strip()
RECURSIVE lstrip(_)
lstrip(s) == IF s # <<>> /\ Head(s) = " " THEN lstrip(Tail(s)) ELSE s
RECURSIVE rstrip(_)
rstrip(s) ==
  IF s # <<>> /\ s[Len(s)] = " " THEN rstrip(SubSeq(s, 1, Len(s) - 1)) ELSE s
strip(s) == rstrip(lstrip(s))

\* a in b, for two str
is_in(a, b) ==
  \E i \in 0..(Len(b) - Len(a)) : SubSeq(b, i + 1, i + Len(a)) = a

\* set(re.findall(r'\w+', s))
words(s) == {s[i] : i \in 1..Len(s)} \ {" "}

\* str(val).lower().strip() of a str
lower_strip(val) == strip(lower(val.v[1]))

MaxOf(a, b) == IF a >= b THEN a ELSE b

\* _score_literal_bool (comparator.py 145-161)
score_literal_bool(extracted, ground_truth) ==
  LET ext_str == lower_strip(extracted)
      gt_raw == lower_strip(ground_truth)
      gt_str == IF gt_raw \in {<<"yes">>, <<"1">>} THEN <<"true">>
                ELSE IF gt_raw \in {<<"no">>, <<"0">>} THEN <<"false">>
                ELSE gt_raw
  IN IF ext_str = gt_str THEN 10
     ELSE IF ext_str = <<"unknown">> \/ gt_str = <<"unknown">> THEN 5
     ELSE 0

\* _score_literal_enum (comparator.py 163-172)
score_literal_enum(extracted, ground_truth) ==
  LET ext_str == lower_strip(extracted)
      gt_str == lower_strip(ground_truth)
  IN IF ext_str = gt_str THEN 10
     ELSE IF is_in(ext_str, gt_str) \/ is_in(gt_str, ext_str) THEN 6
     ELSE 0

\* _normalize_list (comparator.py 247-255) of a list: the falsy items are
\* dropped, the others lower-cased and stripped.
normalize_list(val) ==
  IF val.kind = "list"
  THEN LET kept == SelectSeq(val.v, LAMBDA item : item # <<>>)
       IN [i \in 1..Len(kept) |-> strip(lower(kept[i]))]
  ELSE <<>>

\* _score_list (comparator.py 174-210)
score_list(extracted, ground_truth) ==
  LET ext_items == normalize_list(extracted)
      gt_items == normalize_list(ground_truth)
      ext_set == RangeOf(ext_items)
      gt_set == RangeOf(gt_items)
      intersection == Cardinality(ext_set \cap gt_set)
      union == Cardinality(ext_set \cup gt_set)
      ext_words == UNION {words(x) : x \in ext_set}
      gt_words == UNION {words(x) : x \in gt_set}
  IN IF ext_items = <<>> /\ gt_items = <<>> THEN 10
     ELSE IF ext_items = <<>> \/ gt_items = <<>> THEN 2
     ELSE IF union = 0 THEN 10
     ELSE IF 10 * intersection >= 8 * union THEN 10
     ELSE IF 10 * intersection >= 5 * union THEN 8
     ELSE IF /\ ext_words # {} /\ gt_words # {}
             /\ 2 * Cardinality(ext_words \cap gt_words) >
                  MaxOf(Cardinality(ext_words), Cardinality(gt_words))
          THEN 6
     ELSE 2

\* _score_text (comparator.py 212-229)
score_text(extracted, ground_truth) ==
  LET ext_str == lower_strip(extracted)
      gt_str == lower_strip(ground_truth)
      ext_words == words(ext_str)
      gt_words == words(gt_str)
  IN IF ext_str = gt_str THEN 10
     ELSE IF is_in(ext_str, gt_str) \/ is_in(gt_str, ext_str) THEN 8
     ELSE IF /\ ext_words # {} /\ gt_words # {}
             /\ 2 * Cardinality(ext_words \cap gt_words) >
                  MaxOf(Cardinality(ext_words), Cardinality(gt_words))
          THEN 6
     ELSE 2

\* _score_feature (comparator.py 111-141), scores in tenths.
score_feature(feat_name, extracted, ground_truth, gt_present) ==
  LET feat_type == FEATURE_TYPES[feat_name] IN
  IF extracted = NoneValue /\ ~gt_present THEN 10
  ELSE IF extracted = NoneValue /\ gt_present THEN 0
  ELSE IF ~gt_present
  THEN IF extracted.kind = "list" /\ Len(extracted.v) = 0 THEN 10
       ELSE IF /\ extracted.kind = "str"
               /\ lower(extracted.v[1]) \in {<<"unknown">>, <<>>} THEN 10
       ELSE 3
  ELSE CASE feat_type = "literal_bool" -> score_literal_bool(extracted, ground_truth)
         [] feat_type = "literal_enum" -> score_literal_enum(extracted, ground_truth)
         [] feat_type = "list" -> score_list(extracted, ground_truth)
         [] OTHER -> score_text(extracted, ground_truth)

\* _is_present_value (comparator.py 233-241)
is_present_value(val) ==
  CASE val = NoneValue -> FALSE
    [] val.kind = "list" -> \E i \in 1..Len(val.v) : strip(val.v[i]) # <<>>
    [] OTHER -> lower(strip(val.v[1])) \notin
                  {<<>>, <<"unknown">>, <<"null">>, <<"none">>}

NoError == [msg |-> None, domain |-> None, crawler |-> None]

\* GroundTruthComparator.evaluate: overall_accuracy is features_correct / |FEATURES|.
evaluate(e) ==
  LET gt == find_ground_truth(e.domain) IN
  IF gt = <<>>
  THEN [domain |-> e.domain, crawler |-> e.crawler, llm |-> e.llm,
        features_found |-> 0, features_correct |-> 0,
        features_present_correct |-> 0,
        homepage_internal_links |-> 0, homepage_total_links |-> 0,
        homepage_external_links |-> 0, homepage_internal_links_crawled |-> 0,
        errors |-> <<[msg |-> "No ground truth found for", domain |-> e.domain.host,
                      crawler |-> None]>>]
  ELSE
  LET g == gt[1]
      sc(f) == score_feature(f, Value(e.features[f]), Value(g[f].value), g[f].present)
      one(b) == IF b THEN 1 ELSE 0
  IN [domain |-> e.domain, crawler |-> e.crawler, llm |-> e.llm,
      features_found |->
        SumSeq([i \in 1..Len(FEATURES) |-> one(is_present_value(Value(e.features[FEATURES[i]])))]),
      features_correct |->
        SumSeq([i \in 1..Len(FEATURES) |-> one(sc(FEATURES[i]) >= 8)]),
      features_present_correct |->
        SumSeq([i \in 1..Len(FEATURES) |->
                 one(is_present_value(Value(e.features[FEATURES[i]])) = g[FEATURES[i]].present)]),
      homepage_internal_links |-> 0, homepage_total_links |-> 0,
      homepage_external_links |-> 0, homepage_internal_links_crawled |-> 0,
      errors |-> <<>>]

\* runner.py 240-243: the crawl's link counters merged into the evaluation.
annotate(ev, cr) ==
  [ev EXCEPT !.homepage_internal_links = cr.homepage_internal_links,
             !.homepage_total_links = cr.homepage_total_links,
             !.homepage_external_links = cr.homepage_external_links,
             !.homepage_internal_links_crawled = cr.homepage_internal_links_crawled]

\* The zero-accuracy EvaluationResult the pipeline builds for a failure.
zero_result(d, c, llm, err) ==
  [domain |-> d, crawler |-> c, llm |-> llm,
   features_found |-> 0, features_correct |-> 0, features_present_correct |-> 0,
   homepage_internal_links |-> 0, homepage_total_links |-> 0,
   homepage_external_links |-> 0, homepage_internal_links_crawled |-> 0,
   errors |-> <<err>>]

(***************************************************************************)
(* Artifact cache (runner.py 409-526).                                     *)
(***************************************************************************)
\* A payload whose crawl section leaves out the error of the crawl.
artifact_payload_without_crawl_error(cr, p, e) ==
  [domain |-> cr.domain, crawler |-> cr.crawler, llm |-> e.llm,
   crawled_at |-> cr.crawled_at, extracted_at |-> e.extracted_at,
   crawl |-> [error |-> None, page_contents |-> cr.page_contents,
              raw_content |-> cr.raw_content,
              homepage_internal_links |-> cr.homepage_internal_links,
              homepage_internal_links_crawled |-> cr.homepage_internal_links_crawled,
              homepage_external_links |-> cr.homepage_external_links,
              homepage_total_links |-> cr.homepage_total_links],
   parsed |-> [char_count |-> p.char_count, markdown |-> p.markdown,
               page_sections |-> p.page_sections],
   extraction |-> [features |-> e.features,
                   raw_llm_response |-> e.raw_llm_response,
                   error |-> e.error]]

\* _save_intermediate_artifacts: the payload written to <llm>.json.
artifact_payload(cr, p, e) ==
  [domain |-> cr.domain, crawler |-> cr.crawler, llm |-> e.llm,
   crawled_at |-> cr.crawled_at, extracted_at |-> e.extracted_at,
   crawl |-> [error |-> cr.error, page_contents |-> cr.page_contents,
              raw_content |-> cr.raw_content,
              homepage_internal_links |-> cr.homepage_internal_links,
              homepage_internal_links_crawled |-> cr.homepage_internal_links_crawled,
              homepage_external_links |-> cr.homepage_external_links,
              homepage_total_links |-> cr.homepage_total_links],
   parsed |-> [char_count |-> p.char_count, markdown |-> p.markdown,
               page_sections |-> p.page_sections],
   extraction |-> [features |-> e.features,
                   raw_llm_response |-> e.raw_llm_response,
                   error |-> e.error]]

artifact_path(cr, e) == <<domain_key(cr.domain), cr.crawler, e.llm>>

\* A save that names the file after the first extractor, whichever ran.
save_intermediate_artifacts_wrong_name(fs, cr, p, e) ==
  [fs EXCEPT ![<<domain_key(cr.domain), cr.crawler, "claude">>] =
               <<artifact_payload(cr, p, e)>>]

\* _save_intermediate_artifacts: the file is (over)written with the payload.
save_intermediate_artifacts(fs, cr, p, e) ==
  [fs EXCEPT ![artifact_path(cr, e)] = <<artifact_payload(cr, p, e)>>]

\* An ExtractedFeatures rebuilt without the stored error.
extraction_from_payload_no_error(data, cr, llm, now) ==
  [domain |-> cr.domain, crawler |-> cr.crawler, llm |-> llm, extracted_at |-> now,
   features |-> data.extraction.features,
   raw_llm_response |-> data.extraction.raw_llm_response,
   error |-> None]

\* runner.py 497-505: the ExtractedFeatures rebuilt from a payload.
extraction_from_payload(data, cr, llm, now) ==
  [domain |-> cr.domain, crawler |-> cr.crawler, llm |-> llm, extracted_at |-> now,
   features |-> data.extraction.features,
   raw_llm_response |-> data.extraction.raw_llm_response,
   error |-> data.extraction.error]

\* _load_cached_artifact: <<>> when the file is missing, else the three objects
\* rebuilt from the payload, with fresh timestamps.
load_cached_artifact(fs, d, c, llm, now) ==
  LET path == <<domain_key(d), c, llm>> IN
  IF fs[path] = <<>> THEN <<>>
  ELSE LET data == fs[path][1]
           cr == [domain |-> data.domain, crawler |-> c,
                  raw_content |-> data.crawl.raw_content,
                  page_contents |-> data.crawl.page_contents,
                  crawled_at |-> now,
                  homepage_internal_links |-> data.crawl.homepage_internal_links,
                  homepage_total_links |-> data.crawl.homepage_total_links,
                  homepage_external_links |-> data.crawl.homepage_external_links,
                  homepage_internal_links_crawled |->
                    data.crawl.homepage_internal_links_crawled,
                  error |-> data.crawl.error]
       IN <<[crawl |-> cr,
             parsed |-> [domain |-> cr.domain, crawler |-> cr.crawler,
                         markdown |-> data.parsed.markdown,
                         page_sections |-> data.parsed.page_sections,
                         char_count |-> data.parsed.char_count],
             extraction |-> extraction_from_payload(data, cr, llm, now)]>>

\* sorted(base_dir.glob("*.json")): file stems in lexicographic order.
SortedLLMs == <<"claude", "openai">>

\* A lookup that only tries the name that sorts first.
load_any_cached_artifact_first_name(fs, d, c, now) ==
  load_cached_artifact(fs, d, c, SortedLLMs[1], now)

\* _load_any_cached_artifact: the first artifact of the directory, if any.
load_any_cached_artifact(fs, d, c, now) ==
  LET present == SelectSeq(SortedLLMs, LAMBDA l : fs[<<domain_key(d), c, l>>] # <<>>) IN
  IF present = <<>> THEN <<>>
  ELSE load_cached_artifact(fs, d, c, present[1], now)

(***************************************************************************)
(* BenchmarkRunner._crawl_domain (runner.py 301-372), as one step: every   *)
(* requested backend yields exactly one CrawlResult.  oc gives each        *)
(* backend's outcome; "ctor_raise" is get_crawler raising.                 *)
(***************************************************************************)
BackendOutcomes == CrawlOutcomes \cup {"ctor_raise"}

crawl_domain(d, oc, now) ==
  LET res(c) == CrawlResultOf(d, c, IF oc[c] = "ctor_raise" THEN "raise" ELSE oc[c], now)
      api == SelectSeq(CrawlerList, LAMBDA c : c \in API_CRAWLERS)
      local == SelectSeq(CrawlerList, LAMBDA c : c \in LOCAL_CRAWLERS)
      init_errors == SelectSeq(api, LAMBDA c : oc[c] = "ctor_raise")
      api_tasks == SelectSeq(api, LAMBDA c : oc[c] # "ctor_raise")
      order == init_errors \o api_tasks \o local
  IN [i \in 1..Len(order) |-> res(order[i])]

\* crawler.crawl is invoked for every backend that could be constructed.
crawl_invocations(oc) ==
  [c \in RangeOf(CrawlerList) |-> IF oc[c] # "ctor_raise" THEN 1 ELSE 0]

(***************************************************************************)
(* BenchmarkRunner.run (runner.py 29-299), llm_compare = False.            *)
(***************************************************************************)
Now == runNo

CurDomain == DomainList[dIdx]
CurItem == crawl_results[itemIdx]
CurLLM == llms[llmIdx]
CurKey == <<domain_key(CurDomain), CurItem.crawl.crawler, CurLLM>>

\* A single failure result for the backend instead of one per extractor.
ZeroForFirst(d, c, err) == <<zero_result(d, c, llms[1], err)>>

\* runner.py 168-181, 193-205: one zero result per requested extractor.
ZeroForAll(d, c, err) ==
  [i \in 1..Len(llms) |-> zero_result(d, c, llms[i], err)]

\* Observation: the keys that had an artifact when they were processed, and
\* what was used for a key.
SeenArtifacts(ks) == hadArtifact \cup {k \in ks : files[k] # <<>>}
Used(extraction) == <<[extraction |-> extraction, crawl |-> CurItem.crawl]>>

\* The loop position after item i of n has been dealt with.
AfterItem(i, n) ==
  IF i < n
  THEN pc' = "items" /\ itemIdx' = i + 1 /\ dIdx' = dIdx
       /\ crawl_results' = crawl_results
  ELSE pc' = "domain" /\ itemIdx' = 1 /\ dIdx' = dIdx + 1
       /\ crawl_results' = <<>>

\* The loop position after the current extractor has been dealt with.
AfterLLM ==
  IF llmIdx < Len(llms)
  THEN llmIdx' = llmIdx + 1 /\ parsed' = parsed
       /\ UNCHANGED <<pc, itemIdx, dIdx, crawl_results>>
  ELSE llmIdx' = 1 /\ parsed' = <<>> /\ AfterItem(itemIdx, Len(crawl_results))

\* What an action of the pipeline leaves alone.
otherThanRun == <<crawlVars, rateVars, fanVars, cacheVars, cmpVars, scoreVars>>

InitRun ==
  /\ files = [k \in Keys |-> <<>>]
  /\ pc = "idle" /\ runNo = 0
  /\ use_cache_only = TRUE /\ save_intermediate = FALSE
  /\ llms = <<"claude">>
  /\ dIdx = 1 /\ crawl_results = <<>> /\ itemIdx = 1
  /\ parsed = <<>> /\ llmIdx = 1
  /\ all_results = <<>> /\ report = <<>>
  /\ extractCalls = [k \in Keys |-> 0]
  /\ runExtract = [k \in Keys |-> 0]
  /\ runCtor = 0 /\ runFetch = [c \in RangeOf(CrawlerList) |-> 0]
  /\ used = [k \in Keys |-> <<>>]
  /\ hadArtifact = {} /\ raisedAt = {}
  /\ firstSaved = [k \in Keys |-> <<>>]
  /\ allSaved = TRUE

\* run() is entered: runner.py 29-48.
StartRun ==
  /\ pc = "idle" /\ runNo < MaxRuns
  /\ \E uco \in BOOLEAN, save \in BOOLEAN, ls \in LLMLists :
       /\ use_cache_only' = uco
       /\ save_intermediate' = save
       /\ llms' = ls
       /\ allSaved' = (allSaved /\ save)
  /\ runNo' = runNo + 1
  /\ pc' = "domain" /\ dIdx' = 1 /\ itemIdx' = 1 /\ llmIdx' = 1
  /\ crawl_results' = <<>> /\ parsed' = <<>>
  /\ all_results' = <<>> /\ report' = <<>>
  /\ runExtract' = [k \in Keys |-> 0]
  /\ runCtor' = 0 /\ runFetch' = [c \in RangeOf(CrawlerList) |-> 0]
  /\ used' = [k \in Keys |-> <<>>]
  /\ hadArtifact' = {} /\ raisedAt' = {}
  /\ UNCHANGED <<files, extractCalls, firstSaved>>
  /\ UNCHANGED otherThanRun

\* Phase 1, live: runner.py 158-159, the backends' outcomes drawn from a set.
Phase1LiveFrom(outcomes) ==
  /\ pc = "domain" /\ dIdx <= Len(DomainList) /\ ~use_cache_only
  /\ \E oc \in [RangeOf(CrawlerList) -> outcomes] :
       LET results == crawl_domain(CurDomain, oc, Now) IN
       /\ crawl_results' = [i \in 1..Len(results) |->
                              [crawl |-> results[i], parsed |-> <<>>]]
       /\ runCtor' = runCtor + Len(CrawlerList)
       /\ runFetch' = [c \in RangeOf(CrawlerList) |->
                          runFetch[c] + crawl_invocations(oc)[c]]
  /\ pc' = "items" /\ itemIdx' = 1
  /\ UNCHANGED <<files, runNo, use_cache_only, save_intermediate, llms, dIdx,
                 parsed, llmIdx, all_results, report, extractCalls, runExtract,
                 used, hadArtifact, raisedAt, firstSaved, allSaved>>
  /\ UNCHANGED otherThanRun

Phase1Live == Phase1LiveFrom(BackendOutcomes)

\* Phase 1, cache-only: runner.py 160-184.  loaded[i] is the any-extractor
\* artifact of backend i, or <<>>.
MissingArtifact(d, c) ==
  [msg |-> "Missing cached artifact for", domain |-> d.host, crawler |-> c]

RECURSIVE CachedPhase1(_, _, _)
CachedPhase1(i, items, results) ==
  IF i > Len(CrawlerList) THEN [items |-> items, results |-> results]
  ELSE LET ct == CrawlerList[i]
           cached_any == load_any_cached_artifact(files, CurDomain, ct, Now)
       IN IF cached_any = <<>>
          THEN CachedPhase1(i + 1, items,
                 results \o ZeroForAll(CurDomain, ct, MissingArtifact(CurDomain, ct)))
          ELSE CachedPhase1(i + 1,
                 Append(items, [crawl |-> cached_any[1].crawl,
                                parsed |-> <<cached_any[1].parsed>>]),
                 results)

\* A cache-only phase 1 that crawls live when a backend has no artifact.
Phase1CacheOnly_live_on_miss ==
  /\ pc = "domain" /\ dIdx <= Len(DomainList) /\ use_cache_only
  /\ LET out == CachedPhase1(1, <<>>, <<>>)
         missing == SelectSeq(CrawlerList, LAMBDA c :
                      load_any_cached_artifact(files, CurDomain, c, Now) = <<>>)
         live == [i \in 1..Len(missing) |->
                    [crawl |-> CrawlResultOf(CurDomain, missing[i], "ok", Now),
                     parsed |-> <<parse(CrawlResultOf(CurDomain, missing[i], "ok", Now))>>]]
     IN /\ crawl_results' = out.items \o live
        /\ runCtor' = runCtor + Len(missing)
        /\ runFetch' = [c \in RangeOf(CrawlerList) |->
                          runFetch[c] + IF c \in RangeOf(missing) THEN 1 ELSE 0]
  /\ pc' = "items" /\ itemIdx' = 1
  /\ UNCHANGED <<files, runNo, use_cache_only, save_intermediate, llms, dIdx,
                 parsed, llmIdx, all_results, report, extractCalls, runExtract,
                 used, hadArtifact, raisedAt, firstSaved, allSaved>>
  /\ UNCHANGED otherThanRun

Phase1CacheOnly ==
  /\ pc = "domain" /\ dIdx <= Len(DomainList) /\ use_cache_only
  /\ LET out == CachedPhase1(1, <<>>, all_results) IN
       /\ all_results' = out.results
       /\ IF out.items = <<>>
          THEN pc' = "domain" /\ dIdx' = dIdx + 1 /\ crawl_results' = <<>>
          ELSE pc' = "items" /\ dIdx' = dIdx /\ crawl_results' = out.items
  /\ itemIdx' = 1
  /\ UNCHANGED <<files, runNo, use_cache_only, save_intermediate, llms,
                 parsed, llmIdx, report, extractCalls, runExtract, runCtor,
                 runFetch, used, hadArtifact, raisedAt, firstSaved, allSaved>>
  /\ UNCHANGED otherThanRun

\* A test that takes every crawl with an error for a failed one.
CrawlFailed_any_error(cr) == cr.error # None

CrawlFailed(cr) == cr.error # None /\ cr.raw_content = ""

\* runner.py 191-206: a failed crawl yields one zero result per extractor.
ItemCrawlFailed ==
  /\ pc = "items" /\ CrawlFailed(CurItem.crawl)
  /\ all_results' = all_results \o
       ZeroForAll(CurDomain, CurItem.crawl.crawler,
                  [msg |-> "Crawl failed:", domain |-> None, crawler |-> CurItem.crawl.error])
  /\ hadArtifact' = SeenArtifacts({<<domain_key(CurDomain), CurItem.crawl.crawler, llms[i]>> :
                                     i \in 1..Len(llms)})
  /\ AfterItem(itemIdx, Len(crawl_results))
  /\ UNCHANGED <<files, runNo, use_cache_only, save_intermediate, llms,
                 parsed, llmIdx, report, extractCalls, runExtract, runCtor,
                 runFetch, used, raisedAt, firstSaved, allSaved>>
  /\ UNCHANGED otherThanRun

\* Phase 2, runner.py 208-220.
ItemParse ==
  /\ pc = "items" /\ ~CrawlFailed(CurItem.crawl)
  /\ parsed' = IF use_cache_only THEN CurItem.parsed ELSE <<parse(CurItem.crawl)>>
  /\ pc' = "llms" /\ llmIdx' = 1
  /\ UNCHANGED <<files, runNo, use_cache_only, save_intermediate, llms, dIdx,
                 crawl_results, itemIdx, all_results, report, extractCalls,
                 runExtract, runCtor, runFetch, used, hadArtifact, raisedAt,
                 firstSaved, allSaved>>
  /\ UNCHANGED otherThanRun

CurCached ==
  load_cached_artifact(files, CurDomain, CurItem.crawl.crawler, CurLLM, Now)

\* A cache that is consulted in cache-only mode alone.
cache_hit_in_cache_only_mode(cached) == cached # <<>> /\ use_cache_only

\* runner.py 228: "if cached is not None".
cache_hit(cached) == cached # <<>>

\* A cached combination that is saved again when saving is enabled.
ComboCached_resave ==
  /\ pc = "llms" /\ cache_hit(CurCached)
  /\ LET extraction == CurCached[1].extraction IN
       /\ all_results' = Append(all_results, annotate(evaluate(extraction), CurItem.crawl))
       /\ used' = [used EXCEPT ![CurKey] = Used(extraction)]
       /\ files' = IF save_intermediate
                   THEN save_intermediate_artifacts(files, CurItem.crawl,
                                                    parsed[1], extraction)
                   ELSE files
  /\ hadArtifact' = SeenArtifacts({CurKey})
  /\ AfterLLM
  /\ UNCHANGED <<runNo, use_cache_only, save_intermediate, llms, report,
                 extractCalls, runExtract, runCtor, runFetch, raisedAt,
                 firstSaved, allSaved>>
  /\ UNCHANGED otherThanRun

\* Phase 3/4 with a cached artifact: runner.py 225-230, 235-250.
ComboCached ==
  /\ pc = "llms" /\ cache_hit(CurCached)
  /\ LET extraction == CurCached[1].extraction IN
       /\ all_results' = Append(all_results, annotate(evaluate(extraction), CurItem.crawl))
       /\ used' = [used EXCEPT ![CurKey] = Used(extraction)]
  /\ hadArtifact' = SeenArtifacts({CurKey})
  /\ AfterLLM
  /\ UNCHANGED <<files, runNo, use_cache_only, save_intermediate, llms, report,
                 extractCalls, runExtract, runCtor, runFetch, raisedAt,
                 firstSaved, allSaved>>
  /\ UNCHANGED otherThanRun

\* A handler placed around the whole extractor loop: the first failure ends
\* the backend's remaining extractors.
ComboExtractorInitFails_abort ==
  /\ pc = "llms" /\ ~cache_hit(CurCached)
  /\ all_results' = Append(all_results,
       zero_result(CurDomain, CurItem.crawl.crawler, CurLLM,
                   [msg |-> "extractor init failed", domain |-> None, crawler |-> None]))
  /\ raisedAt' = raisedAt \cup {CurKey}
  /\ hadArtifact' = SeenArtifacts({CurKey})
  /\ llmIdx' = 1 /\ parsed' = <<>> /\ AfterItem(itemIdx, Len(crawl_results))
  /\ UNCHANGED <<files, runNo, use_cache_only, save_intermediate, llms, report,
                 extractCalls, runExtract, runCtor, runFetch, used,
                 firstSaved, allSaved>>
  /\ UNCHANGED otherThanRun

\* get_extractor raises (runner.py 232, 283-295).
ComboExtractorInitFails ==
  /\ pc = "llms" /\ ~cache_hit(CurCached)
  /\ all_results' = Append(all_results,
       zero_result(CurDomain, CurItem.crawl.crawler, CurLLM,
                   [msg |-> "extractor init failed", domain |-> None, crawler |-> None]))
  /\ raisedAt' = raisedAt \cup {CurKey}
  /\ hadArtifact' = SeenArtifacts({CurKey})
  /\ AfterLLM
  /\ UNCHANGED <<files, runNo, use_cache_only, save_intermediate, llms, report,
                 extractCalls, runExtract, runCtor, runFetch, used,
                 firstSaved, allSaved>>
  /\ UNCHANGED otherThanRun

\* A live combination whose artifact is saved but never evaluated.
ComboLive_save_unevaluated ==
  /\ pc = "llms" /\ ~cache_hit(CurCached)
  /\ \E outcome \in ExtractOutcomes :
       LET extraction == extract(parsed[1], CurLLM, outcome, Now)
           path == artifact_path(CurItem.crawl, extraction)
       IN /\ all_results' = IF save_intermediate THEN all_results
                             ELSE Append(all_results,
                                         annotate(evaluate(extraction), CurItem.crawl))
          /\ used' = [used EXCEPT ![CurKey] = Used(extraction)]
          /\ IF save_intermediate
             THEN /\ files' = save_intermediate_artifacts(files, CurItem.crawl,
                                                          parsed[1], extraction)
                  /\ firstSaved' = [firstSaved EXCEPT ![path] =
                                      IF firstSaved[path] = <<>> THEN <<extraction>>
                                      ELSE firstSaved[path]]
             ELSE UNCHANGED <<files, firstSaved>>
  /\ extractCalls' = [extractCalls EXCEPT ![CurKey] = @ + 1]
  /\ runExtract' = [runExtract EXCEPT ![CurKey] = @ + 1]
  /\ hadArtifact' = SeenArtifacts({CurKey})
  /\ AfterLLM
  /\ UNCHANGED <<runNo, use_cache_only, save_intermediate, llms, report,
                 runCtor, runFetch, raisedAt, allSaved>>
  /\ UNCHANGED otherThanRun

\* Live extraction, evaluation and, when asked for, a successful save:
\* runner.py 231-250, 279-282.
ComboLive ==
  /\ pc = "llms" /\ ~cache_hit(CurCached)
  /\ \E outcome \in ExtractOutcomes :
       LET extraction == extract(parsed[1], CurLLM, outcome, Now)
           path == artifact_path(CurItem.crawl, extraction)
       IN /\ all_results' = Append(all_results,
                                   annotate(evaluate(extraction), CurItem.crawl))
          /\ used' = [used EXCEPT ![CurKey] = Used(extraction)]
          /\ IF save_intermediate
             THEN /\ files' = save_intermediate_artifacts(files, CurItem.crawl,
                                                          parsed[1], extraction)
                  /\ firstSaved' = [firstSaved EXCEPT ![path] =
                                      IF firstSaved[path] = <<>> THEN <<extraction>>
                                      ELSE firstSaved[path]]
             ELSE UNCHANGED <<files, firstSaved>>
  /\ extractCalls' = [extractCalls EXCEPT ![CurKey] = @ + 1]
  /\ runExtract' = [runExtract EXCEPT ![CurKey] = @ + 1]
  /\ hadArtifact' = SeenArtifacts({CurKey})
  /\ AfterLLM
  /\ UNCHANGED <<runNo, use_cache_only, save_intermediate, llms, report,
                 runCtor, runFetch, raisedAt, allSaved>>
  /\ UNCHANGED otherThanRun

\* Live extraction and evaluation, then _save_intermediate_artifacts raises
\* (runner.py 279-295): the handler appends a second, zero result.
ComboSaveFails ==
  /\ pc = "llms" /\ ~cache_hit(CurCached) /\ save_intermediate
  /\ \E outcome \in ExtractOutcomes :
       LET extraction == extract(parsed[1], CurLLM, outcome, Now) IN
       /\ all_results' = all_results \o
            << annotate(evaluate(extraction), CurItem.crawl),
               zero_result(CurDomain, CurItem.crawl.crawler, CurLLM,
                           [msg |-> "write failed", domain |-> None, crawler |-> None]) >>
       /\ used' = [used EXCEPT ![CurKey] = Used(extraction)]
  /\ extractCalls' = [extractCalls EXCEPT ![CurKey] = @ + 1]
  /\ runExtract' = [runExtract EXCEPT ![CurKey] = @ + 1]
  /\ raisedAt' = raisedAt \cup {CurKey}
  /\ allSaved' = FALSE
  /\ hadArtifact' = SeenArtifacts({CurKey})
  /\ AfterLLM
  /\ UNCHANGED <<files, runNo, use_cache_only, save_intermediate, llms, report,
                 runCtor, runFetch, firstSaved>>
  /\ UNCHANGED otherThanRun

\* _build_report (runner.py 299, 374-395).
build_report(results) ==
  [total_domains |-> Cardinality({results[i].domain : i \in 1..Len(results)}),
   total_combinations |-> Len(results),
   results |-> results]

BuildReport ==
  /\ pc = "domain" /\ dIdx > Len(DomainList)
  /\ report' = <<build_report(all_results)>>
  /\ pc' = "idle"
  /\ UNCHANGED <<files, runNo, use_cache_only, save_intermediate, llms, dIdx,
                 crawl_results, itemIdx, parsed, llmIdx, all_results,
                 extractCalls, runExtract, runCtor, runFetch, used, hadArtifact,
                 raisedAt, firstSaved, allSaved>>
  /\ UNCHANGED otherThanRun

Next ==
  \/ StartRun
  \/ Phase1Live
  \/ Phase1CacheOnly
  \/ ItemCrawlFailed
  \/ ItemParse
  \/ ComboCached
  \/ ComboExtractorInitFails
  \/ ComboLive
  \/ ComboSaveFails
  \/ BuildReport

Init == InitRun /\ NoCrawl /\ NoRate /\ NoFan /\ NoCache /\ NoCompare /\ NoScore

Spec == Init /\ [][Next]_vars

(***************************************************************************)
(* Properties of the pipeline.                                             *)
(***************************************************************************)
RunDone == pc = "idle" /\ report # <<>>
Results == report[1].results

ResultKey(r) == <<domain_key(r.domain), r.crawler, r.llm>>
EntriesFor(rs, k) == SelectSeq(rs, LAMBDA r : ResultKey(r) = k)

SameExtraction(a, b) ==
  /\ a.features = b.features
  /\ a.raw_llm_response = b.raw_llm_response
  /\ a.error = b.error

SavedEarlier(k) == firstSaved[k] # <<>> /\ firstSaved[k][1].extracted_at < runNo

Idempotent(k) ==
  /\ used[k] # <<>>
  /\ SameExtraction(used[k][1].extraction, firstSaved[k][1])
  /\ runExtract[k] = 0
  /\ runFetch[k[2]] = 0

\* C2 (as stated): a completed re-run of a key whose artifact an earlier run
\* saved uses ExtractedFeatures with the same features, raw response and error
\* as first saved, and issues no crawler fetch and no extractor call for it.
C2_RerunIdentical ==
  RunDone => \A k \in Keys : SavedEarlier(k) => Idempotent(k)

\* C2 (amended): the same, for a re-run in cache-only mode.
C2_CacheOnlyRerunIdentical ==
  (RunDone /\ use_cache_only) => \A k \in Keys : SavedEarlier(k) => Idempotent(k)

C2_Witness ==
  /\ RunDone /\ use_cache_only
  /\ \E k \in Keys : SavedEarlier(k) /\ used[k] # <<>>
                     /\ used[k][1].extraction.error # None

UsesArtifact(k) ==
  /\ used[k] # <<>>
  /\ files[k] # <<>>
  /\ used[k][1].extraction.features = files[k][1].extraction.features
  /\ used[k][1].extraction.raw_llm_response = files[k][1].extraction.raw_llm_response
  /\ used[k][1].extraction.error = files[k][1].extraction.error

\* C3 (as stated): a key whose artifact existed when it was processed gets the
\* artifact's extraction, no crawler fetch and no extractor call, in cache-only
\* mode and in live mode alike.
C3_CacheHitNoCalls ==
  \A k \in hadArtifact :
    runExtract[k] = 0 /\ runFetch[k[2]] = 0 /\ UsesArtifact(k)

\* C3 (amended): a key whose artifact existed when it was processed gets no
\* extractor call in either mode; in cache-only mode the artifact's
\* extraction is used and the backend is not crawled; in live mode the backend
\* is crawled again and the artifact's extraction is used when that crawl
\* returned content.
C3_CacheHitNoExtractorCall ==
  \A k \in hadArtifact :
    /\ runExtract[k] = 0
    /\ use_cache_only => (runFetch[k[2]] = 0 /\ UsesArtifact(k))
    /\ (~use_cache_only /\ used[k] # <<>>) => (runFetch[k[2]] = 1 /\ UsesArtifact(k))

C3_Witness ==
  /\ RunDone /\ ~use_cache_only
  /\ \E k \in hadArtifact : UsesArtifact(k) /\ runFetch[k[2]] = 1

Failed(k) ==
  \/ k \in raisedAt
  \/ used[k] = <<>>
  \/ used[k][1].extraction.error # None

IsZeroWithError(r) == r.features_correct = 0 /\ r.errors # <<>>

\* C5: a completed run reports every requested combination, and every
\* combination whose crawl, cache lookup or extraction failed has a
\* zero-accuracy entry with a non-empty error list.
C5_FailedCombosAreZeroWithError ==
  RunDone =>
    \A k \in Keys :
      /\ EntriesFor(Results, k) # <<>>
      /\ Failed(k) => \E i \in 1..Len(EntriesFor(Results, k)) :
                        IsZeroWithError(EntriesFor(Results, k)[i])

SameBackend(k1, k2) == k1[1] = k2[1] /\ k1[2] = k2[2]

\* C6: when processing one extractor of a (domain, backend) raised, that
\* combination has a zero-score entry with an error, and every other
\* extractor of the (domain, backend) has exactly one entry, the evaluation of
\* its own extraction annotated with the crawl's link counters.
C6_PartialFailureIsolated ==
  RunDone =>
    \A k \in raisedAt :
      /\ \E i \in 1..Len(EntriesFor(Results, k)) :
           IsZeroWithError(EntriesFor(Results, k)[i])
      /\ \A k2 \in Keys \ raisedAt :
           SameBackend(k, k2) =>
             /\ used[k2] # <<>>
             /\ EntriesFor(Results, k2) =
                  <<annotate(evaluate(used[k2][1].extraction), used[k2][1].crawl)>>

C6_Witness ==
  /\ RunDone
  /\ \E k \in raisedAt, k2 \in Keys \ raisedAt :
       /\ SameBackend(k, k2) /\ k[3] = "claude" /\ k2[3] = "openai"
       /\ used[k2] # <<>> /\ used[k2][1].extraction.error = None

NoArtifactFor(d, c) ==
  \A l \in RangeOf(SortedLLMs) : files[<<domain_key(d), c, l>>] = <<>>

\* C7: a completed cache-only run reports, for a (domain, backend) without any
\* artifact, exactly one entry per requested extractor, with zero accuracy and
\* one error that names the domain and the backend.
C7_MissingArtifactEntries ==
  (RunDone /\ use_cache_only) =>
    \A di \in 1..Len(DomainList), c \in RangeOf(CrawlerList) :
      NoArtifactFor(DomainList[di], c) =>
        \A i \in 1..Len(llms) :
          LET es == EntriesFor(Results, <<domain_key(DomainList[di]), c, llms[i]>>) IN
          /\ Len(es) = 1
          /\ es[1].features_correct = 0
          /\ Len(es[1].errors) = 1
          /\ es[1].errors[1].msg = "Missing cached artifact for"
          /\ es[1].errors[1].domain = DomainList[di].host
          /\ es[1].errors[1].crawler = c

C7_Witness ==
  /\ RunDone /\ use_cache_only
  /\ NoArtifactFor(DomainA, "firecrawl")
  /\ ~NoArtifactFor(DomainA, "custom_html")

\* C8: in cache-only mode no crawler is constructed and no crawl is invoked,
\* whatever the cache holds.
C8_CacheOnlyNeverCrawls ==
  use_cache_only =>
    (runCtor = 0 /\ \A c \in RangeOf(CrawlerList) : runFetch[c] = 0)

C8_Witness ==
  /\ RunDone /\ use_cache_only
  /\ \E i \in 1..Len(Results) :
       /\ Results[i].errors # <<>>
       /\ Results[i].errors[1].msg = "Missing cached artifact for"

\* The artifact of backend c whose file name sorts first.
FirstArtifact(d, c) ==
  LET l == IF files[<<domain_key(d), c, "claude">>] # <<>> THEN "claude"
           ELSE "openai"
  IN files[<<domain_key(d), c, l>>][1]

SameCrawl(cr, data) ==
  /\ cr.raw_content = data.crawl.raw_content
  /\ cr.page_contents = data.crawl.page_contents
  /\ cr.error = data.crawl.error
  /\ cr.homepage_internal_links = data.crawl.homepage_internal_links
  /\ cr.homepage_internal_links_crawled = data.crawl.homepage_internal_links_crawled

C36_OneEntryPerCombination ==
  RunDone =>
    /\ \A k \in Keys : Len(EntriesFor(Results, k)) <= 1
    /\ report[1].total_combinations =
         Len(DomainList) * Len(CrawlerList) * Len(llms)

\* C20: an artifact file is written at most once: a step changes the file of
\* a key only when saving is enabled, the key is the combination being
\* processed and no artifact existed for it; a file that exists is never
\* overwritten or modified, and with saving disabled nothing is written.
C20_ArtifactWrittenOnce ==
  [][\A k \in Keys :
       files'[k] # files[k] =>
         /\ files[k] = <<>> /\ files'[k] # <<>>
         /\ save_intermediate /\ pc = "llms" /\ k = CurKey]_vars

\* A second run with saving enabled has processed, live, a key whose artifact
\* the first run wrote: the file still holds what was first written.
C20_Witness ==
  /\ RunDone /\ runNo = 2 /\ save_intermediate /\ ~use_cache_only
  /\ \E k \in hadArtifact :
       /\ used[k] # <<>> /\ runExtract[k] = 0
       /\ files[k] # <<>> /\ firstSaved[k] # <<>>
       /\ files[k][1].extracted_at = 1
       /\ SameExtraction(files[k][1].extraction, firstSaved[k][1])

\* Stage events of a step: the current item is parsed, the extractor is
\* called for key k, an evaluation of what was used for k is appended, the
\* artifact of k is written.
ParsedNow == parsed = <<>> /\ parsed' # <<>>
ExtractedNow(k) == runExtract'[k] > runExtract[k]
EvaluatedNow(k) ==
  /\ used'[k] # <<>>
  /\ \E i \in (Len(all_results) + 1)..Len(all_results') :
       all_results'[i] = annotate(evaluate(used'[k][1].extraction), used'[k][1].crawl)
SavedNow(k) == files'[k] # files[k]

\* C26: the stages of a combination processed live come in the order crawl,
\* parse, extract, evaluate, save.  A backend's result is parsed only after
\* its crawl has been invoked and has returned; the extractor is called only
\* on the parsed document of that backend; an evaluation of a key without
\* artifact follows an extractor call for it; an artifact is written only
\* with the evaluation of its extraction appended.
C26_StageOrder ==
  [][/\ ParsedNow /\ ~use_cache_only =>
          /\ pc = "items" /\ runFetch[CurItem.crawl.crawler] >= 1
          /\ parsed' = <<parse(CurItem.crawl)>>
     /\ \A k \in Keys :
          /\ ExtractedNow(k) =>
               /\ pc = "llms" /\ k = CurKey
               /\ parsed # <<>> /\ parsed[1].crawler = k[2]
               /\ used'[k] # <<>>
               /\ used'[k][1].extraction.domain = parsed[1].domain
          /\ EvaluatedNow(k) /\ k \notin hadArtifact' => runExtract'[k] >= 1
          /\ SavedNow(k) =>
               /\ EvaluatedNow(k) /\ runExtract'[k] >= 1
               /\ SameExtraction(files'[k][1].extraction, used'[k][1].extraction)]_vars

\* A live run crawled both backends, and a key without artifact was
\* extracted, evaluated and saved.
C26_Witness ==
  /\ RunDone /\ runNo = 1 /\ ~use_cache_only /\ save_intermediate
  /\ \A c \in RangeOf(CrawlerList) : runFetch[c] = 1
  /\ \E k \in Keys \ hadArtifact :
       /\ runExtract[k] = 1 /\ files[k] # <<>> /\ used[k] # <<>>
       /\ \E i \in 1..Len(Results) :
            Results[i] = annotate(evaluate(used[k][1].extraction), used[k][1].crawl)

(***************************************************************************)
(* URLs (src/src/crawlers/base.py).  A URL is its parts: scheme, netloc as *)
(* the sequence of its dot-separated labels, path as the sequence of its   *)
(* segments, whether the path ends in "/", and the query ("" when none).   *)
(* A raw link carries a fragment as well and has scheme "" and netloc <<>> *)
(* when it is relative.  All hosts and paths are lower case.               *)
(***************************************************************************)
Url(scheme, netloc, path, slash, query) ==
  [scheme |-> scheme, netloc |-> netloc, path |-> path, slash |-> slash,
   query |-> query]

RawLink(scheme, netloc, path, slash, query, fragment) ==
  [scheme |-> scheme, netloc |-> netloc, path |-> path, slash |-> slash,
   query |-> query, fragment |-> fragment]

HostLabels == [h \in {"a.com"} |-> <<"a", "com">>]

\* _normalize_base: trailing "/" stripped, "https://" put before a bare host.
normalize_base(d) ==
  Url(IF d.scheme = "http://" THEN "http" ELSE "https",
      (IF d.www THEN <<"www">> ELSE <<>>) \o HostLabels[d.host],
      <<>>, FALSE, "")

\* _normalize_host: a leading "www." removed.
normalize_host(host) ==
  IF host # <<>> /\ Head(host) = "www" THEN Tail(host) ELSE host

\* A test that takes no subdomain for the site's own host.
ends_with_host_never(host, base_host) == FALSE

\* host.endswith("." + base_host)
ends_with_host(host, base_host) ==
  /\ Len(host) > Len(base_host)
  /\ SubSeq(host, Len(host) - Len(base_host) + 1, Len(host)) = base_host

\* A canonical form that tells a trailing "/" and a query apart.
canonical_url_exact(u) ==
  [scheme |-> u.scheme, netloc |-> u.netloc, path |-> u.path,
   slash |-> u.slash, query |-> u.query]

\* _canonical_url: scheme, netloc and the path without its trailing "/"; an
\* empty path is "/".  The query is not part of it.
canonical_url(u) == [scheme |-> u.scheme, netloc |-> u.netloc, path |-> u.path]

\* The page name "homepage".
HOMEPAGE == [path |-> <<>>, query |-> ""]

\* _page_name: "homepage" for the root path, otherwise the path without its
\* trailing "/", followed by "?query" when there is a query.
page_name(u) ==
  IF u.path = <<>> THEN HOMEPAGE ELSE [path |-> u.path, query |-> u.query]

\* urljoin(base, cleaned) for a base without a path, then urldefrag.
urljoin(b, raw) ==
  IF raw.scheme # ""
  THEN Url(raw.scheme, raw.netloc, raw.path, raw.slash, raw.query)
  ELSE Url(b.scheme, b.netloc, raw.path, raw.slash, raw.query)

\* cleaned.startswith(("#", "mailto:", "tel:", "javascript:", "data:"))
skipped_prefix(raw) ==
  \/ raw.scheme \in {"mailto", "tel", "javascript", "data"}
  \/ raw.scheme = "" /\ raw.path = <<>> /\ ~raw.slash /\ raw.query = ""

\* skip_path_tokens and skip_exts, as the path segments they rule out.
SKIP_PATH_SEGMENTS == {"login", "log-in", "signin", "sign-in", "signup",
                       "sign-up", "register", "auth", "authenticate", "oauth",
                       "sso"}
SKIP_EXT_FILES == {"logo.png", "site.css", "app.js"}

skipped_path(u) ==
  \/ \E i \in 1..Len(u.path) : u.path[i] \in SKIP_PATH_SEGMENTS
  \/ u.path # <<>> /\ ~u.slash /\ u.path[Len(u.path)] \in SKIP_EXT_FILES

\* The loop without the test against the canonical forms already seen.
RECURSIVE discover_from_without_seen(_, _, _, _, _)
discover_from_without_seen(raw_links, b, seen, internal, external) ==
  IF raw_links = <<>> THEN [internal |-> internal, external |-> external]
  ELSE LET raw == Head(raw_links)
           rest == Tail(raw_links)
           absolute == urljoin(b, raw)
           host == normalize_host(absolute.netloc)
           base_host == normalize_host(b.netloc)
       IN IF \/ skipped_prefix(raw)
             \/ absolute.scheme \notin {"http", "https"}
             \/ absolute.netloc = <<>>
             \/ skipped_path(absolute)
             \/ canonical_url(absolute) = canonical_url(b)
          THEN discover_from_without_seen(rest, b, seen, internal, external)
          ELSE IF host = base_host \/ ends_with_host(host, base_host)
          THEN discover_from_without_seen(rest, b, seen,
                                          Append(internal, absolute), external)
          ELSE discover_from_without_seen(rest, b, seen,
                                          internal, Append(external, absolute))

\* _discover_links, the loop over raw_links (base.py 222-247).
RECURSIVE discover_from(_, _, _, _, _)
discover_from(raw_links, b, seen, internal, external) ==
  IF raw_links = <<>> THEN [internal |-> internal, external |-> external]
  ELSE LET raw == Head(raw_links)
           rest == Tail(raw_links)
           absolute == urljoin(b, raw)
           host == normalize_host(absolute.netloc)
           base_host == normalize_host(b.netloc)
           canonical == canonical_url(absolute)
       IN IF \/ skipped_prefix(raw)
             \/ absolute.scheme \notin {"http", "https"}
             \/ absolute.netloc = <<>>
             \/ skipped_path(absolute)
             \/ canonical = canonical_url(b)
             \/ canonical \in seen
          THEN discover_from(rest, b, seen, internal, external)
          ELSE IF host = base_host \/ ends_with_host(host, base_host)
          THEN discover_from(rest, b, seen \cup {canonical},
                             Append(internal, absolute), external)
          ELSE discover_from(rest, b, seen \cup {canonical},
                             internal, Append(external, absolute))

\* _discover_links: nothing is found in empty content.
discover_links(content, b) == discover_from(content, b, {}, <<>>, <<>>)

\* urljoin(base + "/", "pricing"), urljoin(base + "/", "about")
preferred(b) == << Url(b.scheme, b.netloc, <<"pricing">>, FALSE, ""),
                   Url(b.scheme, b.netloc, <<"about">>, FALSE, "") >>

discovered_set(found) == {canonical_url(found[i]) : i \in 1..Len(found)}

\* The reordering that appends the preferred pages after the others.
prefer_last(found, b) ==
  LET first == SelectSeq(preferred(b),
                         LAMBDA u : canonical_url(u) \in discovered_set(found))
  IN SelectSeq(found, LAMBDA u : u \notin RangeOf(first)) \o first

\* base.py 64-73: the preferred pages that were discovered, then every
\* discovered URL that is not one of them.
prefer(found, b) ==
  LET first == SelectSeq(preferred(b),
                         LAMBDA u : canonical_url(u) \in discovered_set(found))
  IN first \o SelectSeq(found, LAMBDA u : u \notin RangeOf(first))

\* A filter that compares what follows the host as a whole, so that a
\* trailing "/" or a query keeps a URL out.
filter_by_pages_exact(urls, allow) ==
  SelectSeq(urls, LAMBDA u : u.path \in RangeOf(allow) /\ ~u.slash /\ u.query = "")

\* _filter_by_pages: an allow-list entry is a path without its leading and
\* trailing "/".
filter_by_pages(urls, allow) ==
  SelectSeq(urls, LAMBDA u : u.path \in RangeOf(allow))

Max(a, b) == IF a >= b THEN a ELSE b
Min(a, b) == IF a <= b THEN a ELSE b

\* A cap that is applied only when no allow-list is given.
fetch_list_of_uncapped_allow_list(ordered, allow, k) ==
  IF allow # <<>>
  THEN IF filter_by_pages(ordered, allow) # <<>>
       THEN filter_by_pages(ordered, allow) ELSE ordered
  ELSE SubSeq(ordered, 1, Min(Len(ordered), Max(0, k)))

\* base.py 74-77: the allow-list filter with its fallback, then the cap.
fetch_list_of(ordered, allow, k) ==
  LET filtered == IF allow # <<>> /\ filter_by_pages(ordered, allow) # <<>>
                  THEN filter_by_pages(ordered, allow) ELSE ordered
  IN SubSeq(filtered, 1, Min(Len(filtered), Max(0, k)))

(***************************************************************************)
(* BaseCrawler.crawl (base.py 36-104) with its retry loop (132-174).       *)
(***************************************************************************)
MaxLinks == 2
MaxBudget == 3
MaxFaults == 2

\* config.py 20: max_retries of every backend the registry builds.
MaxRetries == 3

CrawlDomain == DomainA
Base == normalize_base(CrawlDomain)

\* Links a homepage may carry.
LinkPricing == RawLink("", <<>>, <<"pricing">>, FALSE, "", "")
LinkPricingSlash == RawLink("", <<>>, <<"pricing">>, TRUE, "", "")
LinkAbout == RawLink("", <<>>, <<"about">>, FALSE, "", "")
LinkAboutQuery == RawLink("", <<>>, <<"about">>, FALSE, "ref=nav", "")
LinkBlog == RawLink("", <<>>, <<"blog", "post-1">>, FALSE, "", "team")
LinkExternal == RawLink("https", <<"external", "com">>, <<>>, FALSE, "", "")
LinkWwwRoot == RawLink("https", <<"www", "a", "com">>, <<>>, TRUE, "", "")
LinkLogin == RawLink("", <<>>, <<"login">>, FALSE, "", "")
LinkHome == RawLink("", <<>>, <<>>, TRUE, "", "")
LinkDocs == RawLink("https", <<"docs", "a", "com">>, <<"guide">>, FALSE, "", "top")

LinkPool == {LinkPricing, LinkPricingSlash, LinkAboutQuery, LinkBlog,
             LinkExternal, LinkWwwRoot}

\* The homepage of the example: /pricing, /about, /blog/post-1 and one
\* external site.
ExampleSite == <<LinkPricing, LinkAbout, LinkBlog, LinkExternal>>

\* The sequences of at most n distinct links of the pool.
RECURSIVE LinkSeqs(_)
LinkSeqs(n) ==
  IF n = 0 THEN {<<>>}
  ELSE LET shorter == LinkSeqs(n - 1)
       IN shorter \cup
          {Append(x[1], x[2]) :
             x \in {y \in shorter \X LinkPool :
                      Len(y[1]) = n - 1 /\ y[2] \notin RangeOf(y[1])}}

\* A navigation bar with a home link, a sign-in link, the same page linked
\* twice and slash-terminated links.
NavSite == <<LinkHome, LinkLogin, LinkAbout, LinkAboutQuery, LinkPricingSlash,
             LinkWwwRoot>>

\* A homepage whose first link is an article and whose later links are the
\* preferred pages.
ArticleSite == <<LinkBlog, LinkExternal, LinkAbout, LinkPricing>>

\* A portal page: a subdomain, /about first with a query and then without,
\* the www spelling of the host and one external site.
PortalSite == <<LinkDocs, LinkAboutQuery, LinkAbout, LinkWwwRoot, LinkExternal>>

Sites == LinkSeqs(MaxLinks) \cup {ExampleSite, NavSite, ArticleSite, PortalSite}

\* Allow-lists: none, one that matches /pricing whenever it is discovered,
\* one that matches nothing.
AllowLists == {<<>>, <<<<"pricing">>>>, <<<<"careers">>>>}

\* What one call of crawl_url can do: return text, return blank text, raise
\* with a transient status in the message, raise otherwise.
Transient == "429"
Fatal == "boom"

\* Attempts so far that did not return text.
Faults == Cardinality({i \in 1..Len(log) : log[i].outcome # "ok"})

Names(pcs) == {pcs[i].name : i \in 1..Len(pcs)}

\* page_contents[name] = content on an insertion-ordered dict.
Store(pcs, name, content) ==
  IF name \in Names(pcs)
  THEN [i \in 1..Len(pcs) |->
          IF pcs[i].name = name THEN [name |-> name, content |-> content]
          ELSE pcs[i]]
  ELSE Append(pcs, [name |-> name, content |-> content])

\* base.py 88-104
crawl_result(pcs, errs, found, ext, fl) ==
  [domain |-> CrawlDomain,
   raw_content |-> [i \in 1..Len(pcs) |-> <<"## Page:", pcs[i].name, pcs[i].content>>],
   page_contents |-> pcs,
   homepage_internal_links |-> Cardinality(discovered_set(found)),
   homepage_total_links |-> Cardinality(discovered_set(found)) + Len(ext),
   homepage_external_links |-> Len(ext),
   homepage_internal_links_crawled |-> Len(fl),
   error |-> errs]

CurUrl == IF idx = 0 THEN Base ELSE fetch_list[idx]
CurName == IF idx = 0 THEN HOMEPAGE ELSE page_name(CurUrl)
Attempt(outcome) ==
  [idx |-> idx, url |-> CurUrl, attempt |-> attempt, outcome |-> outcome]

\* A page loop that passes over nothing.
remaining_without_skip(i, pcs, fl) == (i + 1)..Len(fl)

\* base.py 80-83: the positions after i that the loop does not pass over,
\* those whose page name is not a key of page_contents.
remaining(i, pcs, fl) ==
  {j \in (i + 1)..Len(fl) : page_name(fl[j]) \notin Names(pcs)}

\* A page loop that gives up once a page of the fetch list has failed.
AfterPage_abort_on_error(i, pcs, errs, found, ext, fl) ==
  LET rest == remaining(i, pcs, fl)
  IN IF rest = {} \/ (i >= 1 /\ errs # <<>>)
     THEN /\ cpc' = "done" /\ idx' = Len(fl) + 1
          /\ result' = <<crawl_result(pcs, errs, found, ext, fl)>>
     ELSE /\ cpc' = "fetch"
          /\ idx' = CHOOSE j \in rest : \A k \in rest : j <= k
          /\ result' = result

\* The loop of base.py 80-86 after position i: URLs whose page name is
\* already stored are passed over; crawl() returns when none is left.
AfterPage(i, pcs, errs, found, ext, fl) ==
  LET rest == remaining(i, pcs, fl)
  IN IF rest = {}
     THEN /\ cpc' = "done" /\ idx' = Len(fl) + 1
          /\ result' = <<crawl_result(pcs, errs, found, ext, fl)>>
     ELSE /\ cpc' = "fetch"
          /\ idx' = CHOOSE j \in rest : \A k \in rest : j <= k
          /\ result' = result

\* The retry wrapper has returned for the current URL; source is what the
\* homepage gave to discover links in.
PageDone(pcs, errs, source) ==
  /\ page_contents' = pcs /\ errors' = errs /\ attempt' = 0
  /\ IF idx = 0
     THEN LET links == discover_links(source, Base)
              fl == fetch_list_of(prefer(links.internal, Base), pages, max_pages)
          IN /\ discovered' = links.internal
             /\ external_links' = links.external
             /\ fetch_list' = fl
             /\ AfterPage(0, pcs, errs, links.internal, links.external, fl)
     ELSE /\ UNCHANGED <<discovered, external_links, fetch_list>>
          /\ AfterPage(idx, pcs, errs, discovered, external_links, fetch_list)

otherThanCrawl == <<runVars, rateVars, fanVars, cacheVars, cmpVars, scoreVars>>

InitCrawl ==
  /\ site \in Sites /\ pages \in AllowLists
  /\ max_pages \in 0..MaxBudget /\ max_retries \in 0..MaxRetries
  /\ cpc = "start" /\ idx = 0 /\ attempt = 0
  /\ page_contents = <<>> /\ errors = <<>>
  /\ discovered = <<>> /\ external_links = <<>> /\ fetch_list = <<>>
  /\ result = <<>> /\ log = <<>> /\ sleeps = <<>>

\* crawl() is entered.  With max_retries = 0 the retry loop has no iteration:
\* the wrapper returns ("", None) for the homepage at once.
CrawlStart ==
  /\ cpc = "start"
  /\ IF max_retries > 0
     THEN /\ cpc' = "fetch"
          /\ UNCHANGED <<idx, attempt, page_contents, errors, discovered,
                         external_links, fetch_list, result>>
     ELSE PageDone(page_contents, errors, <<>>)
  /\ UNCHANGED <<site, pages, max_pages, max_retries, log, sleeps>>
  /\ UNCHANGED otherThanCrawl

\* crawl_url returns text (base.py 151-161, 54-55, 85-86).
FetchOk ==
  /\ cpc = "fetch"
  /\ log' = Append(log, Attempt("ok"))
  /\ PageDone(Store(page_contents, CurName, [body |-> CurUrl]), errors, site)
  /\ UNCHANGED <<site, pages, max_pages, max_retries, sleeps>>
  /\ UNCHANGED otherThanCrawl

\* crawl_url returns blank text: nothing is stored.  For the homepage the raw
\* HTML, when the backend has one, still carries the links.
FetchBlank ==
  /\ cpc = "fetch" /\ Faults < MaxFaults
  /\ log' = Append(log, Attempt("blank"))
  /\ \E source \in {site, <<>>} :
       /\ idx # 0 => source = <<>>
       /\ PageDone(page_contents, errors, source)
  /\ UNCHANGED <<site, pages, max_pages, max_retries, sleeps>>
  /\ UNCHANGED otherThanCrawl

\* A handler that records the error at every failed attempt.
Raised_error_each_attempt(e, backoff) ==
  LET errs == Append(errors, [page_name |-> CurName, url |-> CurUrl, e |-> e])
  IN IF attempt < max_retries - 1
     THEN /\ attempt' = attempt + 1
          /\ sleeps' = sleeps \o backoff
          /\ errors' = errs
          /\ UNCHANGED <<cpc, idx, page_contents, discovered,
                         external_links, fetch_list, result>>
     ELSE /\ sleeps' = sleeps
          /\ PageDone(page_contents, errs, <<>>)

\* The handler of base.py 163-172 for an exception whose text is e.
Raised(e, backoff) ==
  IF attempt < max_retries - 1
  THEN /\ attempt' = attempt + 1
       /\ sleeps' = sleeps \o backoff
       /\ UNCHANGED <<cpc, idx, page_contents, errors, discovered,
                      external_links, fetch_list, result>>
  ELSE /\ sleeps' = sleeps
       /\ PageDone(page_contents,
                   Append(errors, [page_name |-> CurName, url |-> CurUrl, e |-> e]),
                   <<>>)

\* A transient failure followed by a backoff of one second whatever the attempt.
FetchTransient_constant_backoff ==
  /\ cpc = "fetch" /\ Faults < MaxFaults
  /\ log' = Append(log, Attempt(Transient))
  /\ Raised(Transient, <<1>>)
  /\ UNCHANGED <<site, pages, max_pages, max_retries>>
  /\ UNCHANGED otherThanCrawl

\* crawl_url raises with 429, 403 or 503 in the message.
FetchTransient ==
  /\ cpc = "fetch" /\ Faults < MaxFaults
  /\ log' = Append(log, Attempt(Transient))
  /\ Raised(Transient, <<2 ^ attempt>>)
  /\ UNCHANGED <<site, pages, max_pages, max_retries>>
  /\ UNCHANGED otherThanCrawl

\* crawl_url raises with another message.
FetchFatal ==
  /\ cpc = "fetch" /\ Faults < MaxFaults
  /\ log' = Append(log, Attempt(Fatal))
  /\ Raised(Fatal, <<>>)
  /\ UNCHANGED <<site, pages, max_pages, max_retries>>
  /\ UNCHANGED otherThanCrawl

NextCrawl ==
  \/ CrawlStart
  \/ FetchOk
  \/ FetchBlank
  \/ FetchTransient
  \/ FetchFatal

InitC == InitCrawl /\ NoRun /\ NoRate /\ NoFan /\ NoCache /\ NoCompare /\ NoScore

SpecCrawl == InitC /\ [][NextCrawl]_vars

(***************************************************************************)
(* Properties of one crawl.                                                *)
(***************************************************************************)
CrawlDone == cpc = "done"

\* The fetch attempts of the page loop, and the URLs they were issued for in
\* the order of their first attempt.
PageLog == SelectSeq(log, LAMBDA e : e.idx # 0)
FetchedPages == {PageLog[i].url : i \in 1..Len(PageLog)}
FirstAttempts == SelectSeq(PageLog, LAMBDA e : e.attempt = 0)
FetchOrder == [i \in 1..Len(FirstAttempts) |-> FirstAttempts[i].url]

\* C9: with max_pages = k, page fetches are issued for at most k URLs other
\* than the homepage, however many internal links were discovered and with
\* or without a page allow-list.
C9_PageBudget == Cardinality(FetchedPages) <= max_pages

\* An allow-list was supplied, more internal links were discovered than the
\* budget allows, and the budget was used up.
C9_Witness ==
  /\ CrawlDone /\ pages # <<>> /\ max_pages >= 2
  /\ Len(discovered) > max_pages
  /\ Cardinality(FetchedPages) = max_pages

Pricing == preferred(Base)[1]
About == preferred(Base)[2]
LinksTo(u) == canonical_url(u) \in discovered_set(discovered)
Preferred == {u \in {Pricing, About} : LinksTo(u)}

\* The position of a discovered URL in discovery order.
DiscoveryIndex(u) == CHOOSE i \in 1..Len(discovered) : discovered[i] = u

\* Every fetch the crawl could issue was issued and returned text.
AllFetchesSucceed ==
  /\ max_retries >= 1
  /\ \A i \in 1..Len(log) : log[i].outcome = "ok"

PricingName == [path |-> <<"pricing">>, query |-> ""]
AboutName == [path |-> <<"about">>, query |-> ""]
PageMap == [i \in 1..Len(result[1].page_contents) |->
              result[1].page_contents[i].name]

\* The order of fetches: a preferred page before every other page, pricing
\* before about, the other pages in discovery order.
PreferredFirst ==
  LET order == FetchOrder
      first == Preferred
  IN \A i, j \in 1..Len(order) :
       i < j =>
         /\ order[j] \in first => order[i] \in first
         /\ ~(order[i] = About /\ order[j] = Pricing)
         /\ (order[i] \notin first /\ order[j] \notin first)
              => DiscoveryIndex(order[i]) < DiscoveryIndex(order[j])

\* Without an allow-list the linked preferred pages are fetched as far as the
\* budget goes.
PreferredFetched ==
  (CrawlDone /\ pages = <<>> /\ max_retries >= 1) =>
    LET order == FetchOrder
        first == Preferred
    IN \A n \in 1..Cardinality(first) :
         max_pages >= n => Len(order) >= n /\ order[n] \in first

\* The example: /pricing, /about, /blog/post-1 and one external site, with
\* max_pages = 2 and every fetch succeeding.
ExampleCrawl ==
  /\ CrawlDone /\ site = ExampleSite /\ pages = <<>> /\ max_pages = 2
  /\ AllFetchesSucceed

ExampleResult ==
  /\ PageMap = <<HOMEPAGE, PricingName, AboutName>>
  /\ result[1].homepage_internal_links = 3
  /\ result[1].homepage_external_links = 1

\* C10: when the homepage links to /pricing and /about among other internal
\* pages, those two are fetched before every other discovered page, pricing
\* first and about second, and the other links are fetched in discovery
\* order; in the example the page map is exactly homepage, /pricing, /about,
\* with 3 internal and 1 external homepage links.
C10_Prioritization ==
  /\ PreferredFirst
  /\ PreferredFetched
  /\ ExampleCrawl => ExampleResult

\* /pricing and /about were discovered after another internal page, and all
\* three were fetched: pricing, about, then the other page.
C10_Witness ==
  /\ CrawlDone /\ pages = <<>>
  /\ Len(discovered) >= 3
  /\ discovered[1] \notin Preferred
  /\ Preferred = {Pricing, About}
  /\ Len(FetchOrder) = 3
  /\ FetchOrder[1] = Pricing /\ FetchOrder[2] = About
  /\ FetchOrder[3] = discovered[1]

\* The attempts made for the homepage, and whether every one of them raised
\* until the retries ran out.
HomepageLog == SelectSeq(log, LAMBDA e : e.idx = 0)
Raises == {Transient, Fatal}
HomepageFailsAllRetries ==
  /\ max_retries >= 1
  /\ Len(HomepageLog) = max_retries
  /\ \A i \in 1..Len(HomepageLog) : HomepageLog[i].outcome \in Raises
PageFetchesSucceed == \A i \in 1..Len(PageLog) : PageLog[i].outcome = "ok"
ErrorMentions(name) ==
  \E i \in 1..Len(result[1].error) : result[1].error[i].page_name = name

\* C11: a crawl whose homepage fetch fails on all retries, and whose page
\* fetches all succeed, returns a result with a non-empty combined document
\* and an error that mentions the homepage.
C11_HomepageFailureStillYieldsDocument ==
  (CrawlDone /\ HomepageFailsAllRetries /\ PageFetchesSucceed) =>
    /\ result[1].raw_content # <<>>
    /\ ErrorMentions(HOMEPAGE)

\* The links _discover_links returned, internal then external.
Returned == discovered \o external_links
Discovered == cpc = "done" \/ idx > 0

\* C12: _discover_links returns no link whose canonical form is that of the
\* base URL, and no two returned links, internal or external, share a
\* canonical form.
C12_DiscoveryCanonicalUnique ==
  LET found == Returned
  IN \A i \in 1..Len(found) :
       /\ canonical_url(found[i]) # canonical_url(Base)
       /\ \A j \in 1..Len(found) :
            i # j => canonical_url(found[i]) # canonical_url(found[j])

\* The navigation bar links home and links /about twice: three internal
\* links are returned.
C12_Witness ==
  /\ Discovered /\ site = NavSite
  /\ Len(discovered) = 3 /\ external_links = <<>>

\* C13: every result has homepage_internal_links_crawled no larger than
\* homepage_internal_links, whatever links were discovered (a /pricing or
\* /about link with a trailing slash or a query included), whatever the
\* allow-list and max_pages.
C13_CrawledAtMostDiscovered ==
  CrawlDone =>
    result[1].homepage_internal_links_crawled
      <= result[1].homepage_internal_links

\* The fetches that returned text, in the order they were made.
Successes == SelectSeq(log, LAMBDA e : e.outcome = "ok")
SuccessName(e) == IF e.idx = 0 THEN HOMEPAGE ELSE page_name(e.url)
DiscoveredNames == {page_name(discovered[i]) : i \in 1..Len(discovered)}

KeysUnique ==
  \A i, j \in 1..Len(PageMap) : i # j => PageMap[i] # PageMap[j]
KeysDiscovered ==
  \A i \in 1..Len(PageMap) : PageMap[i] \in {HOMEPAGE} \cup DiscoveredNames
KeysInFetchOrder ==
  /\ Len(PageMap) = Len(Successes)
  /\ \A i \in 1..Len(PageMap) : PageMap[i] = SuccessName(Successes[i])
CombinedIsJoin ==
  /\ Len(result[1].raw_content) = Len(Successes)
  /\ \A i \in 1..Len(Successes) :
       result[1].raw_content[i] =
         <<"## Page:", SuccessName(Successes[i]), [body |-> Successes[i].url]>>

\* The page map without the claim about where its keys come from.
PageMapInFetchOrder ==
  CrawlDone => KeysUnique /\ KeysInFetchOrder /\ CombinedIsJoin

\* C14: in every result the page_contents keys are unique, are "homepage" or
\* page names of discovered internal links, appear in fetch order, and
\* raw_content is the join of exactly those pages' contents in that order.
C14_PageMapOrdered ==
  CrawlDone =>
    KeysUnique /\ KeysDiscovered /\ KeysInFetchOrder /\ CombinedIsJoin

\* The attempts the retry wrapper made for position i of the crawl (0 is the
\* homepage), and the error entries recorded for a URL.
AttemptsOf(i) == SelectSeq(log, LAMBDA e : e.idx = i)
Positions == {log[k].idx : k \in 1..Len(log)}
UrlOf(i) == IF i = 0 THEN Base ELSE fetch_list[i]
NameOf(i) == IF i = 0 THEN HOMEPAGE ELSE page_name(fetch_list[i])
ErrorsFor(i) == SelectSeq(errors, LAMBDA x : x.url = UrlOf(i))
Returned_(i) == cpc = "done" \/ idx > i
AllRaised(i) ==
  \A k \in 1..Len(AttemptsOf(i)) : AttemptsOf(i)[k].outcome \in Raises

\* C15: the retry wrapper makes at most max_retries attempts for one page,
\* stops at the first attempt that returns, and records an error entry, one
\* only and naming the page and the URL, exactly when it has returned after
\* all its attempts raised; what it then returns is empty, so nothing is
\* stored for that fetch.
C15_RetryWrapper ==
  \A i \in Positions :
    LET made == AttemptsOf(i)
    IN /\ Len(made) <= max_retries
       /\ \A k \in 1..Len(made) :
            /\ made[k].attempt = k - 1
            /\ k < Len(made) => made[k].outcome \in Raises
       /\ IF Returned_(i) /\ AllRaised(i)
          THEN /\ Len(made) = max_retries
               /\ Len(ErrorsFor(i)) = 1
               /\ ErrorsFor(i)[1].page_name = NameOf(i)
               /\ ErrorsFor(i)[1].e = made[Len(made)].outcome
          ELSE ErrorsFor(i) = <<>>
       /\ Len(page_contents) = Len(Successes)

\* With two attempts allowed, a page has failed twice and left one error
\* entry, and the page after it was fetched.
C15_Witness ==
  /\ CrawlDone /\ max_retries = 2
  /\ \E i \in Positions :
       /\ i >= 1 /\ Len(AttemptsOf(i)) = 2 /\ AllRaised(i)
       /\ Len(ErrorsFor(i)) = 1
       /\ i + 1 \in Positions /\ ~AllRaised(i + 1)
  /\ Len(errors) = 1

\* Position i of the fetch list ran out of retries.
Exhausted(i) == i \in Positions /\ Returned_(i) /\ AllRaised(i)
Returns ==
  /\ CrawlDone => Len(result) = 1
  /\ ~CrawlDone => cpc = "start" \/ (cpc = "fetch" /\ idx <= Len(fetch_list))

\* C16 as stated: after a page exhausts its retries, every remaining URL of
\* the capped fetch list is still attempted, and crawl returns a result.
C16_EveryRemainingUrlAttempted ==
  /\ Returns
  /\ CrawlDone =>
       \A i, j \in 1..Len(fetch_list) :
         (i < j /\ Exhausted(i)) => j \in Positions

\* C16 as amended: after a page exhausts its retries, every remaining URL of
\* the capped fetch list is still attempted unless its page name is already
\* a key of the page map, and crawl returns a result.
C16_FailureDoesNotAbort ==
  /\ Returns
  /\ CrawlDone =>
       \A i, j \in 1..Len(fetch_list) :
         (i < j /\ Exhausted(i)) =>
           j \in Positions \/ NameOf(j) \in Names(page_contents)

\* The first page of the fetch list ran out of retries and the two pages
\* after it were attempted.
C16_Witness ==
  /\ CrawlDone /\ Len(fetch_list) = 3
  /\ Exhausted(1) /\ 2 \in Positions /\ 3 \in Positions

\* Link discovery is over and the fetch list has been built.
ListBuilt == cpc \in {"fetch", "done"} /\ (idx >= 1 \/ cpc = "done")

\* The path of the URL is in the allow-list.
Allowed(u) == u.path \in RangeOf(pages)

Capped_(n) == Min(n, Max(0, max_pages))

NoRepeat(s) == \A i, j \in 1..Len(s) : s[i] = s[j] => i = j

\* C29 (as stated): with an allow-list the fetch list is the discovered
\* internal links whose path is in the allow-list, or every discovered link
\* when none matches, and it is not cut to max_pages; without an allow-list
\* it is cut to max_pages.
C29_CapOnlyWithoutAllowList ==
  ListBuilt =>
    LET matching == {u \in RangeOf(discovered) : Allowed(u)}
        pool == IF pages # <<>> /\ matching # {} THEN matching ELSE RangeOf(discovered)
    IN IF pages # <<>>
       THEN RangeOf(fetch_list) = pool
       ELSE Len(fetch_list) <= Max(0, max_pages)

\* The URLs the reordered list of base.py 64-73 holds: the discovered links
\* and the preferred pages whose canonical form was discovered.
Reordered ==
  RangeOf(discovered) \cup
  {u \in RangeOf(preferred(Base)) : canonical_url(u) \in discovered_set(discovered)}

\* C29 (amended): with an allow-list the fetch list is taken from the URLs of
\* the reordered discovered list whose path is in the allow-list, or from
\* the whole list when none matches; the list is cut to max_pages with or
\* without an allow-list.
C29_AllowListThenCap ==
  ListBuilt =>
    LET matching == {u \in Reordered : Allowed(u)}
        pool == IF pages # <<>> /\ matching # {} THEN matching ELSE Reordered
    IN /\ RangeOf(fetch_list) \subseteq pool
       /\ NoRepeat(fetch_list)
       /\ Len(fetch_list) = Capped_(Cardinality(pool))

\* With allow-list "pricing" and max_pages = 1, two URLs are in the
\* allow-list and only one is in the fetch list.
C29_Witness ==
  /\ ListBuilt /\ pages = <<<<"pricing">>>> /\ max_pages = 1
  /\ Cardinality({u \in Reordered : Allowed(u)}) = 2
  /\ Len(fetch_list) = 1 /\ Allowed(fetch_list[1])

\* The page map keeps what it holds: entries are added at its end only.
PageMapKept ==
  /\ Len(page_contents') >= Len(page_contents)
  /\ \A i \in 1..Len(page_contents) : page_contents'[i] = page_contents[i]

\* C30: a URL of the fetch list whose page name is already a key of the page
\* map is skipped.  No fetch attempt is issued for a page whose name is
\* stored, a stored content is never replaced, and a URL left without any
\* attempt is one whose name is stored.
C30_StoredNameSkipped ==
  [][/\ Len(log') = Len(log) + 1 /\ log'[Len(log')].idx >= 1 =>
          page_name(log'[Len(log')].url) \notin Names(page_contents)
     /\ PageMapKept
     /\ cpc' = "done" =>
          \A j \in 1..Len(fetch_list') :
            (\A i \in 1..Len(log') : log'[i].idx # j) =>
              page_name(fetch_list'[j]) \in Names(page_contents')]_vars

\* The homepage is stored, the fetch list holds a link that maps to
\* "homepage" which was never fetched, and the URL after it was fetched.
C30_Witness ==
  /\ CrawlDone /\ HOMEPAGE \in Names(page_contents)
  /\ \E j \in 1..Len(fetch_list) :
       /\ NameOf(j) = HOMEPAGE /\ j \notin Positions
       /\ j + 1 \in Positions
       /\ NameOf(j + 1) \in Names(page_contents)

\* The step issued a fetch attempt: the entry it appended to the log.
Attempted == Len(log') = Len(log) + 1
Latest == log'[Len(log')]

\* The same URL is attempted again, with the next attempt number.
RetriedNext ==
  cpc' = "fetch" /\ idx' = idx /\ attempt' = Latest.attempt + 1

\* The retry loop of the URL is over.
RetryLoopLeft == attempt' = 0 /\ (cpc' = "done" \/ idx' # idx)

\* C25: a failed attempt a that carries a transient status and is not the
\* final one is followed by a sleep of 2^a seconds and then by attempt a + 1;
\* a failed final attempt is followed by no sleep and no further attempt; a
\* failure without transient status that is not final is retried as attempt
\* a + 1 without any sleep.
C25_BackoffRule ==
  [][Attempted /\ Latest.outcome \in Raises =>
       IF Latest.attempt = max_retries - 1
       THEN sleeps' = sleeps /\ RetryLoopLeft
       ELSE /\ RetriedNext
            /\ sleeps' = IF Latest.outcome = Transient
                         THEN Append(sleeps, 2 ^ Latest.attempt)
                         ELSE sleeps]_vars

\* Attempts 0 and 1 of one page failed with a transient status, attempt 2
\* returned text: the sleeps were of 1 and 2 seconds.
C25_Witness ==
  /\ CrawlDone /\ max_retries = 3 /\ sleeps = <<1, 2>>
  /\ \E i \in 1..Len(log) :
       /\ log[i].idx >= 1 /\ log[i].attempt = 2 /\ log[i].outcome = "ok"

\* The page names of the URLs the orchestrator attempted: the homepage, and
\* every page of the fetch list the retry wrapper was called for.
AttemptedNames == {HOMEPAGE} \cup {page_name(PageLog[i].url) : i \in 1..Len(PageLog)}

\* C38: every URL the orchestrator attempted is accounted for in the
\* CrawlResult: its page name is a key of page_contents or the error holds an
\* entry for it, for every max_retries >= 0 and every fetch outcome, blank
\* content included.
C38_AttemptsAccounted ==
  CrawlDone =>
    \A name \in AttemptedNames :
      name \in Names(result[1].page_contents) \/ ErrorMentions(name)

\* C37: within one crawl no two fetched pages share a canonical URL, and the
\* capped fetch list holds no second entry for a page: a /pricing or /about
\* that was discovered with a trailing slash or a query string is moved to
\* the front, not added.
C37_NoDuplicateFetch ==
  /\ \A u, v \in FetchedPages : canonical_url(u) = canonical_url(v) => u = v
  /\ ListBuilt =>
       \A i, j \in 1..Len(fetch_list) :
         i # j => canonical_url(fetch_list[i]) # canonical_url(fetch_list[j])

\* The host of u is the site's own host or a subdomain of it, both without
\* a leading "www".
OwnHost(u) ==
  LET h == normalize_host(u.netloc)
      bh == normalize_host(Base.netloc)
      k == Len(h) - Len(bh)
  IN \/ h = bh
     \/ k > 0 /\ \A i \in 1..Len(bh) : h[k + i] = bh[i]

\* C31: a link _discover_links returns is in the internal sequence if and
\* only if its host, without a leading "www.", is the base host normalized
\* the same way or ends with "." + that base host; otherwise it is in the
\* external sequence; no link is in both.
C31_LinkClassification ==
  /\ \A i \in 1..Len(discovered) : OwnHost(discovered[i])
  /\ \A i \in 1..Len(external_links) : ~OwnHost(external_links[i])
  /\ RangeOf(discovered) \cap RangeOf(external_links) = {}

\* The portal page: the subdomain, /about and the www spelling are internal,
\* the other site is external.
C31_Witness ==
  /\ Discovered /\ site = PortalSite
  /\ Len(discovered) = 3 /\ Len(external_links) = 1
  /\ discovered[1].netloc = <<"docs", "a", "com">>
  /\ discovered[3].netloc = <<"www", "a", "com">>

\* The homepage fetch returned the page, so the links were looked for in it.
HomepageRead ==
  /\ Discovered
  /\ \E i \in 1..Len(log) : log[i].idx = 0 /\ log[i].outcome = "ok"

\* Same scheme, host and path up to a trailing slash, any query.
SamePage(u, v) ==
  u.scheme = v.scheme /\ u.netloc = v.netloc /\ u.path = v.path

\* The link at position i of the page is one the discovery keeps or drops
\* as a duplicate: an http(s) link to another page than the base, with no
\* skipped prefix, path token or extension.
Eligible(i) ==
  LET absolute == urljoin(Base, site[i])
  IN /\ ~skipped_prefix(site[i])
     /\ absolute.scheme \in {"http", "https"} /\ absolute.netloc # <<>>
     /\ ~skipped_path(absolute)
     /\ ~SamePage(absolute, Base)

\* The first eligible position of the page with the canonical form of
\* position i.
FirstSeen(i) ==
  CHOOSE j \in 1..i :
    /\ Eligible(j) /\ SamePage(urljoin(Base, site[j]), urljoin(Base, site[i]))
    /\ \A k \in 1..(j - 1) :
         ~(Eligible(k) /\ SamePage(urljoin(Base, site[k]), urljoin(Base, site[i])))

\* C32: among the links of a page that share a canonical form (same scheme,
\* host and path up to a trailing slash, any query), _discover_links returns
\* exactly one, the first encountered, with its query string kept and its
\* fragment removed.
C32_FirstSeenKept ==
  HomepageRead =>
    \A i \in 1..Len(site) :
      Eligible(i) =>
        LET first == site[FirstSeen(i)]
            kept == {n \in 1..Len(Returned) :
                       SamePage(Returned[n], urljoin(Base, site[i]))}
        IN /\ Cardinality(kept) = 1
           /\ \A n \in kept :
                /\ Returned[n].query = first.query
                /\ Returned[n].slash = first.slash
                /\ DOMAIN Returned[n] =
                     {"scheme", "netloc", "path", "slash", "query"}

\* The portal page links /about?ref=nav before /about: the link with the
\* query is the one returned, and the fragment of the first link is gone.
C32_Witness ==
  /\ HomepageRead /\ site = PortalSite
  /\ discovered[2].path = <<"about">> /\ discovered[2].query = "ref=nav"
  /\ LinkDocs.fragment = "top" /\ discovered[1].path = <<"guide">>

(***************************************************************************)
(* The per-host rate limiter and the retry wrapper under concurrency       *)
(* (base.py 18-20, 106-108, 132-174), with the requests the local-HTTP     *)
(* backend issues inside one fetch (custom_html_crawler.py 35-74).         *)
(* Time is counted in whole seconds and kept as the distances the code     *)
(* looks at: the time since a host's last request, up to min_delay, and    *)
(* the time left of every sleep.                                           *)
(***************************************************************************)
\* self.min_delay in seconds (config.py 38 reads it from the environment)
\* and self.max_retries.
MinDelay == 5
MaxAttempts == 2

\* custom_html_crawler.py 67: asyncio.sleep(3) after a 403 or 429 response.
CooldownSeconds == 3

Tasks == {"t1", "t2"}
Hosts == {"a.com", "b.com"}
RateCrawlers == {"custom_html", "crawl4ai", "firecrawl", "jina", "scrapingbee",
                 "scraperapi"}
Free == "free"

\* A limiter that every backend goes through.
should_rate_limit_every_backend(c) == c \in RateCrawlers

\* _should_rate_limit
should_rate_limit(c) == c \in {"crawl4ai", "custom_html"}

\* wait + random.uniform(-0.2 * wait, 0.2 * wait), in whole seconds.
Jitter(wait) == {s \in 0..(2 * wait) : 5 * s >= 4 * wait /\ 5 * s <= 6 * wait}

HostOf(t) == rtask[t].host
CrawlerOf(t) == rtask[t].crawler

\* The first task fetches from a.com; the second one from a.com through any
\* backend, or from b.com through the headless backend.
TaskTables ==
  {tt \in [Tasks -> [crawler : RateCrawlers, host : Hosts]] :
     /\ tt["t1"].host = "a.com"
     /\ tt["t2"].host = "b.com" => tt["t2"].crawler = "crawl4ai"}

\* One pair of locals for all crawls, as a class attribute would be.
locals_of_class(t) == "t1"

\* base.py 46-47: every call of crawl() creates its own page_contents and
\* errors; the task's crawl holds the pair created for it.
locals_of(t) == t

\* errors.append(...) and page_contents[page_name] = content on the locals
\* of the crawl of task t; every entry is marked with the task that wrote it.
record_error(t, e) ==
  [crawl_locals EXCEPT ![locals_of(t)].errors = Append(@, [by |-> t, e |-> e])]
record_page(t) ==
  [crawl_locals EXCEPT ![locals_of(t)].page_contents = Append(@, [by |-> t])]

\* A gap between two requests, as far as it matters: up to min_delay.
Capped(gap) == IF gap < MinDelay THEN gap ELSE MinDelay

\* No request has been made yet: _last_request_time is 0.0 and time.time()
\* is far from it.
InitRate ==
  /\ rtask \in TaskTables
  /\ rpc = [t \in Tasks |-> "ready"]
  /\ att = [t \in Tasks |-> 0]
  /\ http = [t \in Tasks |-> 0]
  /\ wake = [t \in Tasks |-> 0]
  /\ lock = [h \in Hosts |-> Free]
  /\ waiters = [h \in Hosts |-> <<>>]
  /\ elapsed = [h \in Hosts |-> MinDelay]
  /\ crawl_locals = [t \in Tasks |-> [page_contents |-> <<>>, errors |-> <<>>]]
  /\ since_request = [h \in Hosts |-> MinDelay]
  /\ call_gap = [h \in Hosts |-> MinDelay]
  /\ request_gap = [h \in Hosts |-> MinDelay]

otherThanRate == <<runVars, crawlVars, fanVars, cacheVars, cmpVars, scoreVars>>

\* base.py 150-154: the last-request time is set and crawl_url is called; a
\* local backend sends its first request.
Launch(t) ==
  /\ elapsed' = [elapsed EXCEPT ![HostOf(t)] = 0]
  /\ since_request' = [since_request EXCEPT ![HostOf(t)] = 0]
  /\ call_gap' = [call_gap EXCEPT ![HostOf(t)] = Min(@, elapsed[HostOf(t)])]
  /\ request_gap' = [request_gap EXCEPT ![HostOf(t)] =
                       Min(@, since_request[HostOf(t)])]
  /\ rpc' = [rpc EXCEPT ![t] = "fetching"]
  /\ http' = [http EXCEPT ![t] = 1]
  /\ wake' = [wake EXCEPT ![t] = 0]

\* base.py 143-154 with the lock held: sleep when the last request to the
\* host is less than min_delay ago, else fetch at once.
Hold(t, lk, ws) ==
  /\ lock' = lk /\ waiters' = ws
  /\ IF elapsed[HostOf(t)] < MinDelay
     THEN /\ \E s \in Jitter(MinDelay - elapsed[HostOf(t)]) :
               wake' = [wake EXCEPT ![t] = s]
          /\ rpc' = [rpc EXCEPT ![t] = "sleeping"]
          /\ UNCHANGED <<elapsed, since_request, call_gap, request_gap, http>>
     ELSE Launch(t)

\* base.py 142-159: one iteration of the retry loop begins while the locks
\* are lk and their waiters ws.
Approach(t, lk, ws) ==
  IF ~should_rate_limit(CrawlerOf(t))
  THEN /\ rpc' = [rpc EXCEPT ![t] = "fetching"]
       /\ wake' = [wake EXCEPT ![t] = 0]
       /\ lock' = lk /\ waiters' = ws
       /\ UNCHANGED <<elapsed, since_request, call_gap, request_gap, http>>
  ELSE IF lk[HostOf(t)] = Free /\ ws[HostOf(t)] = <<>>
  THEN Hold(t, [lk EXCEPT ![HostOf(t)] = t], ws)
  ELSE /\ rpc' = [rpc EXCEPT ![t] = "waiting"]
       /\ wake' = [wake EXCEPT ![t] = 0]
       /\ lock' = lk
       /\ waiters' = [ws EXCEPT ![HostOf(t)] = Append(@, t)]
       /\ UNCHANGED <<elapsed, since_request, call_gap, request_gap, http>>

\* Leaving "async with": the lock of a rate-limited task is released.
Released(t) ==
  IF should_rate_limit(CrawlerOf(t))
  THEN [lock EXCEPT ![HostOf(t)] = Free] ELSE lock

\* _crawl_with_retries_impl is called for one URL.
Arrive(t) ==
  /\ rpc[t] = "ready"
  /\ Approach(t, lock, waiters)
  /\ UNCHANGED <<rtask, att>>
  /\ UNCHANGED crawl_locals
  /\ UNCHANGED otherThanRate

\* The lock is handed to its first waiter.
Granted(t) ==
  /\ rpc[t] = "waiting"
  /\ lock[HostOf(t)] = Free
  /\ Head(waiters[HostOf(t)]) = t
  /\ Hold(t, [lock EXCEPT ![HostOf(t)] = t],
          [waiters EXCEPT ![HostOf(t)] = Tail(@)])
  /\ UNCHANGED <<rtask, att>>
  /\ UNCHANGED crawl_locals
  /\ UNCHANGED otherThanRate

\* The spacing sleep is over.
WakeUp(t) ==
  /\ rpc[t] = "sleeping" /\ wake[t] = 0
  /\ Launch(t)
  /\ UNCHANGED <<rtask, att, lock, waiters>>
  /\ UNCHANGED crawl_locals
  /\ UNCHANGED otherThanRate

\* The inner loop of the local-HTTP backend sends its next request.
SendAgain(t) ==
  /\ since_request' = [since_request EXCEPT ![HostOf(t)] = 0]
  /\ request_gap' = [request_gap EXCEPT ![HostOf(t)] =
                       Min(@, since_request[HostOf(t)])]
  /\ http' = [http EXCEPT ![t] = @ + 1]

\* custom_html_crawler.py 54-73: a response other than 200, 403 and 429, or
\* a timeout or client error, is followed at once by the next request.
HttpRetry(t) ==
  /\ rpc[t] = "fetching" /\ CrawlerOf(t) = "custom_html"
  /\ http[t] < MaxAttempts
  /\ SendAgain(t)
  /\ UNCHANGED <<rtask, rpc, att, wake, lock, waiters, elapsed, call_gap>>
  /\ UNCHANGED crawl_locals
  /\ UNCHANGED otherThanRate

\* custom_html_crawler.py 66-67: a 403 or 429 response, then sleep(3).
HttpCooldown(t) ==
  /\ rpc[t] = "fetching" /\ CrawlerOf(t) = "custom_html"
  /\ rpc' = [rpc EXCEPT ![t] = "cooldown"]
  /\ wake' = [wake EXCEPT ![t] = CooldownSeconds]
  /\ UNCHANGED <<rtask, att, http, lock, waiters, elapsed, since_request,
                 call_gap, request_gap>>
  /\ UNCHANGED crawl_locals
  /\ UNCHANGED otherThanRate

\* A handler that runs inside the "async with": the lock is still held when
\* the wrapper backs off or gives up.
FetchRaised_inside_lock(t, e) ==
  IF att[t] < MaxAttempts - 1 /\ e = Transient
  THEN /\ rpc' = [rpc EXCEPT ![t] = "backoff"]
       /\ wake' = [wake EXCEPT ![t] = 2 ^ att[t]]
       /\ UNCHANGED <<att, http, lock, waiters, elapsed, crawl_locals,
                      since_request, call_gap, request_gap>>
  ELSE IF att[t] < MaxAttempts - 1
  THEN /\ att' = [att EXCEPT ![t] = @ + 1]
       /\ Approach(t, Released(t), waiters)
       /\ UNCHANGED crawl_locals
  ELSE /\ rpc' = [rpc EXCEPT ![t] = "done"]
       /\ wake' = [wake EXCEPT ![t] = 0]
       /\ crawl_locals' = record_error(t, e)
       /\ UNCHANGED <<att, http, lock, waiters, elapsed, since_request,
                      call_gap, request_gap>>

\* The handler of base.py 163-172 for a task whose fetch raised with text e.
FetchRaised(t, e) ==
  IF att[t] < MaxAttempts - 1 /\ e = Transient
  THEN /\ rpc' = [rpc EXCEPT ![t] = "backoff"]
       /\ wake' = [wake EXCEPT ![t] = 2 ^ att[t]]
       /\ lock' = Released(t)
       /\ UNCHANGED <<att, http, waiters, elapsed, crawl_locals, since_request,
                      call_gap, request_gap>>
  ELSE IF att[t] < MaxAttempts - 1
  THEN /\ att' = [att EXCEPT ![t] = @ + 1]
       /\ Approach(t, Released(t), waiters)
       /\ UNCHANGED crawl_locals
  ELSE /\ rpc' = [rpc EXCEPT ![t] = "done"]
       /\ wake' = [wake EXCEPT ![t] = 0]
       /\ lock' = Released(t)
       /\ crawl_locals' = record_error(t, e)
       /\ UNCHANGED <<att, http, waiters, elapsed, since_request, call_gap,
                      request_gap>>

\* The cooldown is over: the next request of the inner loop, or "failed to
\* fetch" when the loop is exhausted.
CooldownOver(t) ==
  /\ rpc[t] = "cooldown" /\ wake[t] = 0
  /\ IF http[t] < MaxAttempts
     THEN /\ SendAgain(t)
          /\ rpc' = [rpc EXCEPT ![t] = "fetching"]
          /\ UNCHANGED <<att, wake, lock, waiters, elapsed, crawl_locals, call_gap>>
     ELSE FetchRaised(t, Fatal)
  /\ UNCHANGED rtask
  /\ UNCHANGED otherThanRate

\* crawl_url returns: the wrapper returns its result and crawl() stores it
\* in its page map (base.py 160-161, 85-86).
FetchReturns(t) ==
  /\ rpc[t] = "fetching"
  /\ rpc' = [rpc EXCEPT ![t] = "done"]
  /\ lock' = Released(t)
  /\ crawl_locals' = record_page(t)
  /\ UNCHANGED <<rtask, att, http, wake, waiters, elapsed, since_request,
                 call_gap, request_gap>>
  /\ UNCHANGED otherThanRate

\* crawl_url raises.  The messages of the local-HTTP backend carry no status
\* code (custom_html_crawler.py 50, 74).
FetchRaises(t) ==
  /\ rpc[t] = "fetching"
  /\ \E e \in {Transient, Fatal} :
       /\ CrawlerOf(t) = "custom_html" => e = Fatal
       /\ FetchRaised(t, e)
  /\ UNCHANGED rtask
  /\ UNCHANGED otherThanRate

\* The backoff sleep is over: the next iteration of the retry loop.
BackoffOver(t) ==
  /\ rpc[t] = "backoff" /\ wake[t] = 0
  /\ att' = [att EXCEPT ![t] = @ + 1]
  /\ Approach(t, lock, waiters)
  /\ UNCHANGED rtask
  /\ UNCHANGED crawl_locals
  /\ UNCHANGED otherThanRate

\* Time passes.
Tick ==
  /\ elapsed' = [h \in Hosts |-> Capped(elapsed[h] + 1)]
  /\ since_request' = [h \in Hosts |-> Capped(since_request[h] + 1)]
  /\ wake' = [t \in Tasks |-> Max(wake[t] - 1, 0)]
  /\ UNCHANGED <<rtask, rpc, att, http, lock, waiters, call_gap, request_gap>>
  /\ UNCHANGED crawl_locals
  /\ UNCHANGED otherThanRate

NextRate ==
  \/ \E t \in Tasks : Arrive(t)
  \/ \E t \in Tasks : Granted(t)
  \/ \E t \in Tasks : WakeUp(t)
  \/ \E t \in Tasks : HttpRetry(t)
  \/ \E t \in Tasks : HttpCooldown(t)
  \/ \E t \in Tasks : CooldownOver(t)
  \/ \E t \in Tasks : FetchReturns(t)
  \/ \E t \in Tasks : FetchRaises(t)
  \/ \E t \in Tasks : BackoffOver(t)
  \/ Tick

InitR == InitRate /\ NoRun /\ NoCrawl /\ NoFan /\ NoCache /\ NoCompare /\ NoScore

SpecRate == InitR /\ [][NextRate]_vars

(***************************************************************************)
(* Properties of the rate limiter.                                         *)
(***************************************************************************)
\* A gap of at least 0.8 * d.
Spaced(gap, d) == 5 * gap >= 4 * d

\* The calls of crawl_url the retry wrapper makes for one host are spaced.
CallsSpaced == \A h \in Hosts : Spaced(call_gap[h], MinDelay)

\* C4: any two fetch attempts made through rate-limited backends to the same
\* host start at least 0.8 * d apart, first attempts and retries alike, under
\* every interleaving and every jitter value.
C4_RequestsSpaced == \A h \in Hosts : Spaced(request_gap[h], MinDelay)

\* The task is inside crawl_url: a request is out or the backend is between
\* two requests of the same fetch.
InFlight(t) == rpc[t] \in {"fetching", "cooldown"}

RateLimited(t) == should_rate_limit(CrawlerOf(t))

\* C23: the host lock is released after the spacing wait and before the
\* fetch runs: a rate-limited task whose fetch is in flight does not hold the
\* lock of its host, so that a second fetch to the host can start meanwhile.
C23_LockReleasedBeforeFetch ==
  \A t \in Tasks : RateLimited(t) /\ InFlight(t) => lock[HostOf(t)] # t

\* What the code does instead: the fetch runs with the lock held, so two
\* rate-limited fetches to one host are never in flight together.
FetchesSerialized ==
  \A t1, t2 \in Tasks :
    t1 # t2 /\ RateLimited(t1) /\ RateLimited(t2) /\ HostOf(t1) = HostOf(t2)
      => ~(InFlight(t1) /\ InFlight(t2))

\* The tasks that wrote to the page map and to the error list of the crawl
\* of task t.
WritersOf(t) ==
  {crawl_locals[locals_of(t)].errors[i].by :
     i \in 1..Len(crawl_locals[locals_of(t)].errors)}
  \cup {crawl_locals[locals_of(t)].page_contents[i].by :
          i \in 1..Len(crawl_locals[locals_of(t)].page_contents)}

\* C28: concurrent crawls share nothing but the host locks and last-request
\* times: the page map and the error list of a crawl are written by that
\* crawl alone, so no error recorded by one backend's crawl is in the error
\* list another backend's crawl returns.
C28_CrawlLocalsNotShared == \A t \in Tasks : WritersOf(t) \subseteq {t}

\* Two backends fetched from one host at overlapping times; one recorded an
\* error after its last attempt, the other stored a page.
C28_Witness ==
  /\ \A t \in Tasks : rpc[t] = "done"
  /\ HostOf("t1") = HostOf("t2") /\ CrawlerOf("t1") # CrawlerOf("t2")
  /\ Len(crawl_locals[locals_of("t1")].errors) = 1
  /\ crawl_locals[locals_of("t1")].page_contents = <<>>
  /\ crawl_locals[locals_of("t2")].errors = <<>>
  /\ Len(crawl_locals[locals_of("t2")].page_contents) = 1

\* The backend of the task is a remote API, or one of the two local backends.
RemoteTask(t) == CrawlerOf(t) \in {"firecrawl", "jina", "scrapingbee", "scraperapi"}
LocalTask(t) == CrawlerOf(t) \in {"crawl4ai", "custom_html"}

\* The task took a step of _crawl_with_retries_impl.
Stepped(t) == rpc'[t] # rpc[t] \/ att'[t] # att[t]

\* C24: only crawl4ai and custom_html go through the rate limiter.  A task of
\* a remote-API backend never holds or waits for a host lock, never sleeps
\* the spacing wait, and its steps leave the locks, their waiters and the
\* last-request times alone; a fetch of a local backend holds the host lock.
C24_OnlyLocalBackendsLimited ==
  [][\A t \in Tasks :
       /\ RemoteTask(t) =>
            /\ rpc'[t] \notin {"waiting", "sleeping"}
            /\ \A h \in Hosts : lock'[h] # t /\ t \notin RangeOf(waiters'[h])
            /\ Stepped(t) => UNCHANGED <<lock, waiters, elapsed, call_gap>>
       /\ LocalTask(t) /\ rpc'[t] = "fetching" => lock'[HostOf(t)] = t]_vars

\* A remote-API fetch is in flight on a host to which a local backend has
\* just sent a request, and the local backend still holds the lock.
C24_Witness ==
  \E t1, t2 \in Tasks :
    /\ RemoteTask(t1) /\ LocalTask(t2) /\ HostOf(t1) = HostOf(t2)
    /\ CrawlerOf(t1) = "jina" /\ att[t1] = 1
    /\ InFlight(t1) /\ InFlight(t2)
    /\ lock[HostOf(t2)] = t2 /\ elapsed[HostOf(t2)] = 0

(***************************************************************************)
(* The rate limiter when every fetch and every sleep ends: a task that can *)
(* take a step takes one, and time passes.                                 *)
(***************************************************************************)
TaskStep(t) ==
  \/ Arrive(t)
  \/ Granted(t)
  \/ WakeUp(t)
  \/ HttpRetry(t)
  \/ HttpCooldown(t)
  \/ CooldownOver(t)
  \/ FetchReturns(t)
  \/ FetchRaises(t)
  \/ BackoffOver(t)

RateFairness == WF_vars(Tick) /\ \A t \in Tasks : WF_vars(TaskStep(t))

\* Two fetches of one host: the first one through either rate-limited
\* backend, the second one through the headless backend, which is
\* rate-limited, or through a remote one.
InitContend ==
  /\ InitRate
  /\ \A t \in Tasks : rtask[t].host = "a.com"
  /\ should_rate_limit(rtask["t1"].crawler)
  /\ rtask["t2"].crawler \in {"crawl4ai", "jina"}

InitRF == InitContend /\ NoRun /\ NoCrawl /\ NoFan /\ NoCache /\ NoCompare /\ NoScore

SpecRateFair == InitRF /\ [][NextRate]_vars /\ RateFairness

Waiting(t) == rpc[t] = "waiting"
HoldsLock(t) == should_rate_limit(CrawlerOf(t)) /\ lock[HostOf(t)] = t
AllDone == \A t \in Tasks : rpc[t] = "done"

\* C40: when every fetch and every sleep ends, every fetch through the retry
\* wrapper ends, so every crawl does, and the rate limiter does not deadlock:
\* the lock of a host is released on every path, the one on which the fetch
\* raises included, and a fetch that waits for the lock gets it.
C40_NoDeadlock ==
  /\ \A t \in Tasks : Waiting(t) ~> HoldsLock(t)
  /\ <>[]AllDone
  /\ [](AllDone => \A h \in Hosts : lock[h] = Free)

\* A fetch has raised on its last attempt and has recorded its error, and
\* another fetch to the same host, which was queued behind it, holds the lock.
C40_Witness ==
  \E t, u \in Tasks :
    /\ t # u /\ HostOf(t) = HostOf(u)
    /\ should_rate_limit(CrawlerOf(t))
    /\ rpc[t] = "done" /\ crawl_locals[t].errors # <<>>
    /\ HoldsLock(u) /\ rpc[u] \in {"sleeping", "fetching"}

(***************************************************************************)
(* The domain loop of run() as tasks: the fan-out of _crawl_domain         *)
(* (runner.py 301-372), the sequential phases 2-4 (186-297) and the entry *)
(* of the comparison mode (44-47).                                         *)
(***************************************************************************)
MaxDomains == 2

\* The crawlers argument: two remote-API and two local backends.
FanCrawlers == <<"firecrawl", "crawl4ai", "jina", "custom_html">>

\* runner.py 305-312
api_crawlers(cts) ==
  SelectSeq(cts, LAMBDA c : c \in {"firecrawl", "jina", "scrapingbee", "scraperapi"})
local_crawlers(cts) ==
  SelectSeq(cts, LAMBDA c : c \in {"crawl4ai", "custom_html"})

FanTasks == (1..MaxDomains) \X RangeOf(FanCrawlers)

\* How a crawl() task can end.
TaskOutcomes == {"ok", "fail", "raise"}

\* The result _crawl_domain appends for a backend: what crawl() returned, or
\* the failure result built from an exception (runner.py 325-334, 340-351,
\* 361-370).
backend_result(d, c, o) ==
  CrawlResultOf(d, c, IF o \in {"ok", "fail"} THEN o ELSE "raise", 0)

\* A join that leaves out the backends whose task raised.
gathered_without_raised(d, cs, oc) ==
  LET kept == SelectSeq(cs, LAMBDA c : oc[c] # "raise")
  IN [i \in 1..Len(kept) |-> backend_result(d, kept[i], oc[kept[i]])]

\* runner.py 338-351: one result per gathered task, in api_tasks order.
gathered(d, cs, oc) ==
  [i \in 1..Len(cs) |-> backend_result(d, cs[i], oc[cs[i]])]

\* A join that returns as soon as one task is done.
gather_done_first(cs) ==
  \E i \in 1..Len(cs) : crawl_task[<<dom, cs[i]>>] = "ended"

\* asyncio.gather returns when every task is done.
gather_done(cs) ==
  \A i \in 1..Len(cs) : crawl_task[<<dom, cs[i]>>] = "ended"

otherThanFan == <<runVars, crawlVars, rateVars, cacheVars, cmpVars, scoreVars>>

InitFan ==
  /\ fan_mode \in {"live", "cached", "compare"}
  /\ dom = 1 /\ fan_pc = "domain"
  /\ crawl_task = [t \in FanTasks |-> "new"]
  /\ combo_task = [t \in FanTasks |-> "new"]
  /\ backend_outcome = [c \in RangeOf(FanCrawlers) |-> "none"]
  /\ gathering = <<>> /\ local_idx = 1 /\ fan_results = <<>>
  /\ item_idx = 1 /\ arrival = <<>>

\* runner.py 316-337: the remote backends are built, a failure result is
\* appended for each one whose construction raises, and gather starts the
\* crawl of all the others.
ApiLaunch ==
  /\ fan_pc = "domain" /\ dom <= MaxDomains /\ fan_mode = "live"
  /\ \E broken \in SUBSET RangeOf(api_crawlers(FanCrawlers)) :
       LET api == api_crawlers(FanCrawlers)
           built == SelectSeq(api, LAMBDA c : c \notin broken)
           init_errors == SelectSeq(api, LAMBDA c : c \in broken)
       IN /\ gathering' = built
          /\ backend_outcome' = [c \in RangeOf(FanCrawlers) |->
                                   IF c \in broken THEN "ctor_raise" ELSE "none"]
          /\ fan_results' = [i \in 1..Len(init_errors) |->
                               backend_result(dom, init_errors[i], "ctor_raise")]
          /\ crawl_task' = [t \in FanTasks |->
                              IF t[1] = dom /\ t[2] \in RangeOf(built)
                              THEN "running" ELSE crawl_task[t]]
          /\ fan_pc' = IF built = <<>> THEN "local" ELSE "gather"
  /\ local_idx' = 1
  /\ UNCHANGED <<fan_mode, dom, combo_task, item_idx>>
  /\ arrival' = <<>>
  /\ UNCHANGED otherThanFan

\* The crawl() of a gathered backend returns or raises.
ApiTaskEnds(c) ==
  /\ fan_pc = "gather" /\ crawl_task[<<dom, c>>] = "running"
  /\ \E o \in TaskOutcomes : backend_outcome' = [backend_outcome EXCEPT ![c] = o]
  /\ crawl_task' = [crawl_task EXCEPT ![<<dom, c>>] = "ended"]
  /\ UNCHANGED <<fan_mode, dom, fan_pc, combo_task, gathering, local_idx,
                 fan_results, item_idx>>
  /\ arrival' = Append(arrival, c)
  /\ UNCHANGED otherThanFan

\* A join that pairs each backend of api_tasks with the result that arrived
\* at its position: a returned CrawlResult names the backend it came from,
\* an exception is filed under the backend of the position.
GatherJoin_in_arrival_order ==
  /\ fan_pc = "gather" /\ gather_done(gathering)
  /\ fan_results' = fan_results \o
       [i \in 1..Len(gathering) |->
          IF backend_outcome[arrival[i]] = "raise"
          THEN backend_result(dom, gathering[i], "raise")
          ELSE backend_result(dom, arrival[i], backend_outcome[arrival[i]])]
  /\ fan_pc' = "local"
  /\ UNCHANGED <<fan_mode, dom, crawl_task, combo_task, backend_outcome,
                 gathering, local_idx, item_idx>>
  /\ UNCHANGED arrival
  /\ UNCHANGED otherThanFan

\* runner.py 338-351: gather returns and its results are appended.
GatherJoin ==
  /\ fan_pc = "gather" /\ gather_done(gathering)
  /\ fan_results' = fan_results \o gathered(dom, gathering, backend_outcome)
  /\ fan_pc' = "local"
  /\ UNCHANGED <<fan_mode, dom, crawl_task, combo_task, backend_outcome,
                 gathering, local_idx, item_idx>>
  /\ UNCHANGED arrival
  /\ UNCHANGED otherThanFan

CurLocal == local_crawlers(FanCrawlers)[local_idx]

\* runner.py 354-360: the next local backend is built and its crawl awaited;
\* a constructor that raises gives a failure result at once.
LocalStart ==
  /\ fan_pc = "local" /\ local_idx <= Len(local_crawlers(FanCrawlers))
  /\ \/ /\ backend_outcome' = [backend_outcome EXCEPT ![CurLocal] = "ctor_raise"]
        /\ fan_results' = Append(fan_results,
                                 backend_result(dom, CurLocal, "ctor_raise"))
        /\ local_idx' = local_idx + 1
        /\ UNCHANGED <<fan_pc, crawl_task>>
     \/ /\ crawl_task' = [crawl_task EXCEPT ![<<dom, CurLocal>>] = "running"]
        /\ fan_pc' = "local_wait"
        /\ UNCHANGED <<backend_outcome, fan_results, local_idx>>
  /\ UNCHANGED <<fan_mode, dom, combo_task, gathering, item_idx>>
  /\ UNCHANGED arrival
  /\ UNCHANGED otherThanFan

\* runner.py 358-370: the local crawl returns or raises.
LocalEnds ==
  /\ fan_pc = "local_wait"
  /\ \E o \in TaskOutcomes :
       /\ backend_outcome' = [backend_outcome EXCEPT ![CurLocal] = o]
       /\ fan_results' = Append(fan_results, backend_result(dom, CurLocal, o))
  /\ crawl_task' = [crawl_task EXCEPT ![<<dom, CurLocal>>] = "ended"]
  /\ local_idx' = local_idx + 1
  /\ fan_pc' = "local"
  /\ UNCHANGED <<fan_mode, dom, combo_task, gathering, item_idx>>
  /\ UNCHANGED arrival
  /\ UNCHANGED otherThanFan

\* runner.py 372, 159: _crawl_domain returns its results to run().
CrawlDomainReturns ==
  /\ fan_pc = "local" /\ local_idx > Len(local_crawlers(FanCrawlers))
  /\ fan_pc' = "items" /\ item_idx' = 1
  /\ UNCHANGED <<fan_mode, dom, crawl_task, combo_task, backend_outcome,
                 gathering, local_idx, fan_results>>
  /\ UNCHANGED arrival
  /\ UNCHANGED otherThanFan

\* runner.py 160-184: cache-only phase 1, a crawl result for every backend
\* that has an artifact.
CachedLoad ==
  /\ fan_pc = "domain" /\ dom <= MaxDomains /\ fan_mode = "cached"
  /\ \E present \in SUBSET RangeOf(FanCrawlers) :
       LET found == SelectSeq(FanCrawlers, LAMBDA c : c \in present)
       IN fan_results' = [i \in 1..Len(found) |->
                            backend_result(dom, found[i], "ok")]
  /\ fan_pc' = "items" /\ item_idx' = 1
  /\ UNCHANGED <<fan_mode, dom, crawl_task, combo_task, backend_outcome,
                 gathering, local_idx>>
  /\ UNCHANGED arrival
  /\ UNCHANGED otherThanFan

CurBackend == fan_results[item_idx].crawler

\* runner.py 191-206: a failed crawl gets its zero results, no extraction.
ItemSkipped ==
  /\ fan_pc = "items" /\ item_idx <= Len(fan_results)
  /\ CrawlFailed(fan_results[item_idx])
  /\ item_idx' = item_idx + 1
  /\ UNCHANGED <<fan_mode, dom, fan_pc, crawl_task, combo_task,
                 backend_outcome, gathering, local_idx, fan_results>>
  /\ UNCHANGED arrival
  /\ UNCHANGED otherThanFan

\* A combination that is started and not awaited: the loop goes on to the
\* next item at once.
ComboStarts_unawaited ==
  /\ fan_pc = "items" /\ item_idx <= Len(fan_results)
  /\ ~CrawlFailed(fan_results[item_idx])
  /\ combo_task' = [combo_task EXCEPT ![<<dom, CurBackend>>] = "running"]
  /\ item_idx' = item_idx + 1
  /\ UNCHANGED <<fan_mode, dom, fan_pc, crawl_task, backend_outcome, gathering,
                 local_idx, fan_results>>
  /\ UNCHANGED arrival
  /\ UNCHANGED otherThanFan

\* runner.py 208-233: parse, cache load and the awaited extraction begin.
ComboStarts ==
  /\ fan_pc = "items" /\ item_idx <= Len(fan_results)
  /\ ~CrawlFailed(fan_results[item_idx])
  /\ combo_task' = [combo_task EXCEPT ![<<dom, CurBackend>>] = "running"]
  /\ fan_pc' = "combo_wait"
  /\ UNCHANGED <<fan_mode, dom, crawl_task, backend_outcome, gathering,
                 local_idx, fan_results, item_idx>>
  /\ UNCHANGED arrival
  /\ UNCHANGED otherThanFan

\* runner.py 235-297: extraction, evaluation and save are over.
ComboEnds ==
  /\ fan_pc = "combo_wait"
  /\ combo_task' = [combo_task EXCEPT ![<<dom, CurBackend>>] = "ended"]
  /\ fan_pc' = "items" /\ item_idx' = item_idx + 1
  /\ UNCHANGED <<fan_mode, dom, crawl_task, backend_outcome, gathering,
                 local_idx, fan_results>>
  /\ UNCHANGED arrival
  /\ UNCHANGED otherThanFan

\* runner.py 44-47: with llm_compare the comparator is built from
\* openai_api_key alone, and LLMValueComparator.__init__ (value_compare.py
\* 20-26) has a second required parameter, anthropic_api_key: the call
\* raises TypeError and run() is left before the loop over the domains.
CompareRaises ==
  /\ fan_pc = "domain" /\ dom = 1 /\ fan_mode = "compare"
  /\ fan_pc' = "raised"
  /\ UNCHANGED <<fan_mode, dom, crawl_task, combo_task, backend_outcome,
                 gathering, local_idx, fan_results, item_idx>>
  /\ UNCHANGED arrival
  /\ UNCHANGED otherThanFan

\* The statuses of a domain's tasks once its iteration is over.
Over(status) ==
  [t \in FanTasks |-> IF t[1] = dom /\ status[t] # "running"
                      THEN "over" ELSE status[t]]

\* runner.py 155, 297: the body of the domain loop ends and the loop moves
\* to the next domain.
DomainDone ==
  /\ fan_pc = "items" /\ item_idx > Len(fan_results)
  /\ dom' = dom + 1 /\ fan_pc' = "domain"
  /\ crawl_task' = Over(crawl_task) /\ combo_task' = Over(combo_task)
  /\ backend_outcome' = [c \in RangeOf(FanCrawlers) |-> "none"]
  /\ gathering' = <<>> /\ local_idx' = 1 /\ fan_results' = <<>>
  /\ item_idx' = 1
  /\ UNCHANGED fan_mode
  /\ arrival' = <<>>
  /\ UNCHANGED otherThanFan

NextFan ==
  \/ ApiLaunch
  \/ \E c \in RangeOf(FanCrawlers) : ApiTaskEnds(c)
  \/ GatherJoin
  \/ LocalStart
  \/ LocalEnds
  \/ CrawlDomainReturns
  \/ CachedLoad
  \/ ItemSkipped
  \/ ComboStarts
  \/ ComboEnds
  \/ CompareRaises
  \/ DomainDone

InitF == InitFan /\ NoRun /\ NoCrawl /\ NoRate /\ NoCache /\ NoCompare /\ NoScore

SpecFan == InitF /\ [][NextFan]_vars

(***************************************************************************)
(* Properties of the fan-out.                                              *)
(***************************************************************************)
Remotes == RangeOf(api_crawlers(FanCrawlers))
Locals == RangeOf(local_crawlers(FanCrawlers))
CrawlRunning(c) == dom <= MaxDomains /\ crawl_task[<<dom, c>>] = "running"
ResultsOf(c) == SelectSeq(fan_results, LAMBDA r : r.crawler = c)

\* C17: the remote backends of a domain are in flight together; local
\* backends run one after another, never two at once, and none starts before
\* every remote crawl of the domain has been joined.
C17_FanOut ==
  /\ \A r1, r2 \in RangeOf(gathering) :
       crawl_task[<<dom, r1>>] # "new" => crawl_task[<<dom, r2>>] # "new"
  /\ \A c \in Locals :
       CrawlRunning(c) =>
         /\ \A r \in Remotes : ~CrawlRunning(r) /\ Len(ResultsOf(r)) = 1
         /\ \A c2 \in Locals \ {c} : ~CrawlRunning(c2)

\* Both remote backends were gathered and joined, the first local crawl is
\* over and the second one is running.
C17_Witness ==
  /\ fan_pc = "local_wait" /\ local_idx = 2 /\ Len(gathering) = 2
  /\ \A r \in Remotes : backend_outcome[r] \in TaskOutcomes

\* _crawl_domain has returned.
CrawlDomainReturned == fan_mode = "live" /\ fan_pc \in {"items", "combo_wait"}

\* C18: a backend whose construction or crawl task raises gets a result with
\* empty content and the exception text as error; every other backend's
\* crawl still runs and its result is returned as it was.
C18_BackendFailureConverted ==
  CrawlDomainReturned =>
    \A c \in RangeOf(FanCrawlers) :
      /\ Len(ResultsOf(c)) = 1
      /\ backend_outcome[c] # "none"
      /\ backend_outcome[c] # "ctor_raise" => crawl_task[<<dom, c>>] = "ended"
      /\ IF backend_outcome[c] \in {"raise", "ctor_raise"}
         THEN /\ ResultsOf(c)[1].raw_content = ""
              /\ ResultsOf(c)[1].page_contents = <<>>
              /\ ResultsOf(c)[1].error = "exception"
         ELSE ResultsOf(c)[1] = CrawlResultOf(dom, c, backend_outcome[c], 0)

\* A remote constructor raised, a remote task raised and both local crawls
\* returned content.
C18_Witness ==
  /\ CrawlDomainReturned
  /\ backend_outcome["firecrawl"] = "ctor_raise"
  /\ backend_outcome["jina"] = "raise"
  /\ \A c \in Locals : backend_outcome[c] = "ok"

\* The positions of fan_results that hold a result of backend c.
SlotsOf(c) == {i \in 1..Len(fan_results) : fan_results[i].crawler = c}

\* C27: the results of the gathered backends are joined by backend identity.
\* Whatever the order in which the crawls ended, _crawl_domain returns one
\* result per requested backend, the result filed under a backend is the
\* one that backend produced, and the gathered results stand in the order of
\* api_tasks.
C27_JoinedByIdentity ==
  CrawlDomainReturned =>
    /\ Len(fan_results) = Len(FanCrawlers)
    /\ \A c \in RangeOf(FanCrawlers) :
         /\ Cardinality(SlotsOf(c)) = 1
         /\ \A i \in SlotsOf(c) :
              fan_results[i] = backend_result(dom, c, backend_outcome[c])
    /\ \A i, j \in 1..Len(gathering) :
         i < j => \A m \in SlotsOf(gathering[i]), n \in SlotsOf(gathering[j]) : m < n

\* The second remote crawl ended before the first one; the first returned
\* content and the second raised.
C27_Witness ==
  /\ CrawlDomainReturned
  /\ gathering = <<"firecrawl", "jina">> /\ arrival = <<"jina", "firecrawl">>
  /\ backend_outcome["firecrawl"] = "ok" /\ backend_outcome["jina"] = "raise"

TaskRunning(t) == crawl_task[t] = "running" \/ combo_task[t] = "running"
TaskNew(t) == crawl_task[t] = "new" /\ combo_task[t] = "new"

\* C19: domains are processed one after the other: in every mode no task of
\* a later domain has started while a task of an earlier domain is still
\* running.  In comparison mode run() raises before its loop and no task is
\* ever scheduled.
C19_DomainsSequential ==
  \A t \in FanTasks :
    /\ t[1] > dom => TaskNew(t)
    /\ t[1] < dom => ~TaskRunning(t)

\* The crawls of the second domain's remote backends are in flight and every
\* crawl and every combination of the first domain is over.
C19_Witness ==
  /\ fan_mode = "live" /\ dom = 2 /\ fan_pc = "gather"
  /\ \E t \in FanTasks : t[1] = 2 /\ crawl_task[t] = "running"
  /\ \E t \in FanTasks : t[1] = 1 /\ combo_task[t] = "over"
  /\ \A t \in FanTasks : t[1] = 1 => ~TaskRunning(t)

\* A run in comparison mode ends at the construction of the comparator.
C19_CompareWitness == fan_mode = "compare" /\ fan_pc = "raised"

(***************************************************************************)
(* The artifact cache as a store: _save_intermediate_artifacts is put,     *)
(* _load_cached_artifact is get (runner.py 409-507).  The domain argument  *)
(* is any spelling of the host.                                            *)
(***************************************************************************)
MaxPuts == 1

Schemes == {"", "http://", "https://"}

\* The spellings of a.com: with or without scheme, "www." and trailing "/".
Spellings == [scheme : Schemes, www : BOOLEAN, host : {"a.com"}, slash : BOOLEAN]

\* The store is exercised with the artifacts of one backend.
CacheBackends == {"firecrawl"}

CachePaths == {domain_key(d) : d \in Spellings} \X CacheBackends \X RangeOf(SortedLLMs)

otherThanCache == <<runVars, crawlVars, rateVars, fanVars, cmpVars, scoreVars>>

InitCache ==
  /\ cache_files = [k \in CachePaths |-> <<>>]
  /\ cache_puts = 0 /\ last_put = <<>> /\ put_paths = {}
  /\ asked = <<>> /\ hit = <<>>

\* runner.py 279-282: the artifact of one combination is saved.
Put(d, c, llm, crawled, extracted) ==
  /\ cache_puts < MaxPuts
  /\ LET cr == CrawlResultOf(d, c, crawled, cache_puts + 1)
         p == parse(cr)
         e == extract(p, llm, extracted, cache_puts + 1)
     IN /\ cache_files' = save_intermediate_artifacts(cache_files, cr, p, e)
        /\ last_put' = <<[crawl |-> cr, parsed |-> p, extraction |-> e]>>
        /\ put_paths' = put_paths \cup {artifact_path(cr, e)}
  /\ cache_puts' = cache_puts + 1
  /\ asked' = <<>> /\ hit' = <<>>
  /\ UNCHANGED otherThanCache

\* runner.py 226-228: the artifact of one combination is looked up.
Get(d, c, llm) ==
  /\ asked' = <<[domain |-> d, crawler |-> c, llm |-> llm]>>
  /\ hit' = load_cached_artifact(cache_files, d, c, llm, cache_puts + 1)
  /\ UNCHANGED <<cache_files, cache_puts, last_put, put_paths>>
  /\ UNCHANGED otherThanCache

NextCache ==
  \/ \E d \in Spellings, c \in CacheBackends, llm \in RangeOf(SortedLLMs),
        crawled \in CrawlOutcomes, extracted \in ExtractOutcomes :
       Put(d, c, llm, crawled, extracted)
  \/ \E d \in Spellings, c \in CacheBackends, llm \in RangeOf(SortedLLMs) :
       Get(d, c, llm)

InitS == InitCache /\ NoRun /\ NoCrawl /\ NoRate /\ NoFan /\ NoCompare /\ NoScore

SpecCache == InitS /\ [][NextCache]_vars

\* The latest lookup asked for the backend and extractor of the latest save.
AskedLastPut ==
  /\ asked # <<>> /\ last_put # <<>>
  /\ asked[1].crawler = last_put[1].crawl.crawler
  /\ asked[1].llm = last_put[1].extraction.llm

\* Two spellings that differ at most in scheme, leading "www." and trailing "/".
SameSite(d1, d2) == d1.host = d2.host

\* C21: an artifact saved under one spelling of a domain is found by a lookup
\* under any spelling that differs from it only in scheme, a leading "www."
\* or a trailing slash.
C21_SpellingsShareKey ==
  AskedLastPut /\ SameSite(asked[1].domain, last_put[1].crawl.domain) => hit # <<>>

\* The fields of an artifact that the cache is to preserve.
Content(a) ==
  [raw_content |-> a.crawl.raw_content, page_contents |-> a.crawl.page_contents,
   homepage_internal_links |-> a.crawl.homepage_internal_links,
   homepage_internal_links_crawled |-> a.crawl.homepage_internal_links_crawled,
   homepage_external_links |-> a.crawl.homepage_external_links,
   homepage_total_links |-> a.crawl.homepage_total_links,
   crawl_error |-> a.crawl.error,
   markdown |-> a.parsed.markdown, page_sections |-> a.parsed.page_sections,
   features |-> a.extraction.features,
   raw_llm_response |-> a.extraction.raw_llm_response,
   extraction_error |-> a.extraction.error]

\* The latest lookup asked for exactly what the latest save stored.
AskedSameAsPut == AskedLastPut /\ asked[1].domain = last_put[1].crawl.domain

AskedPath == <<domain_key(asked[1].domain), asked[1].crawler, asked[1].llm>>

\* C22: a lookup of the (domain, backend, extractor) just saved returns an
\* artifact with the saved crawl content, page map, link counters, crawl
\* error, parsed document and sections, features, raw response and extraction
\* error; a lookup of a key that was never saved returns absent.
C22_CacheRoundTrip ==
  /\ AskedSameAsPut => hit # <<>> /\ Content(hit[1]) = Content(last_put[1])
  /\ asked # <<>> /\ AskedPath \notin put_paths => hit = <<>>

\* A failed crawl with a failed extraction was saved and looked up again.
C22_Witness ==
  /\ AskedSameAsPut /\ hit # <<>>
  /\ last_put[1].crawl.error # None /\ last_put[1].extraction.error # None
  /\ asked[1].domain.www /\ asked[1].domain.slash

\* A lookup found nothing although the same backend and extractor had been
\* saved for another host spelling.
C22_AbsentWitness ==
  /\ AskedLastPut /\ AskedPath \notin put_paths /\ hit = <<>>

(***************************************************************************)
(* Runs in comparison mode, run(..., llm_compare=True), over an output     *)
(* directory that earlier runs have filled (runner.py 29-47, 54-155).      *)
(***************************************************************************)
\* The artifact a live run with saving leaves for a combination.
SavedArtifact(c, llm, outcome) ==
  LET cr == CrawlResultOf(DomainA, c, "ok", 0)
  IN artifact_payload(cr, parse(cr), extract(parse(cr), llm, outcome, 0))

\* The output directories earlier runs can leave: every combination has no
\* artifact or the artifact of one of the extraction outcomes.
ArtifactStores ==
  {fs \in [Keys -> {<<>>} \cup
                   {<<SavedArtifact(c, l, o)>> :
                      c \in RangeOf(CrawlerList), l \in {"claude", "openai"},
                      o \in ExtractOutcomes}] :
     \A k \in Keys :
       fs[k] # <<>> => fs[k][1].crawler = k[2] /\ fs[k][1].llm = k[3]}

\* The llms argument.
CompareLLMLists == {<<"claude">>, <<"openai">>, <<"claude", "openai">>}

NoCalls ==
  [fetch |-> 0, extract |-> 0, compare |-> [k \in Keys |-> 0]]

otherThanCompare == <<runVars, crawlVars, rateVars, fanVars, cacheVars, scoreVars>>

InitCompare ==
  /\ cmp_files \in ArtifactStores
  /\ cmp_args = <<>> /\ cmp_pc = "idle" /\ cmp_runs = 0
  /\ cmp_report = <<>> /\ cmp_calls = NoCalls

\* run(domains, crawlers, llms, save_intermediate, llm_compare=True):
\* runner.py 44-47 build the comparator as
\* LLMValueComparator(openai_api_key=...), and __init__ (value_compare.py
\* 20-26) has a second required parameter, anthropic_api_key.  The call
\* raises TypeError before the loop over the domains: nothing is loaded,
\* nothing is appended to all_results and no report is returned.
CompareRun ==
  /\ cmp_pc \in {"idle", "raised"} /\ cmp_runs < MaxRuns
  /\ \E save \in BOOLEAN, ls \in CompareLLMLists :
       cmp_args' = <<[save_intermediate |-> save, llms |-> ls]>>
  /\ cmp_runs' = cmp_runs + 1
  /\ cmp_pc' = "raised" /\ cmp_report' = <<>>
  /\ UNCHANGED <<cmp_files, cmp_calls>>
  /\ UNCHANGED otherThanCompare

NextCompare == CompareRun

InitP == InitCompare /\ NoRun /\ NoCrawl /\ NoRate /\ NoFan /\ NoCache /\ NoScore

SpecCompare == InitP /\ [][NextCompare]_vars

(***************************************************************************)
(* Properties of the comparison mode.                                      *)
(***************************************************************************)
\* The combinations of the last run.
Requested ==
  {k \in Keys : \E i \in 1..Len(cmp_args[1].llms) : k[3] = cmp_args[1].llms[i]}

\* C34: a run in comparison mode issues no crawler fetch and no extractor
\* call; it ends with a report in which every requested combination without
\* a cached artifact has a zero-accuracy result with an error; and no
\* combination gets more than one comparison call over the runs.
C34_ComparisonModeCacheOnly ==
  cmp_runs > 0 =>
    /\ cmp_calls.fetch = 0 /\ cmp_calls.extract = 0
    /\ \A k \in Keys : cmp_calls.compare[k] <= 1
    /\ cmp_pc = "returned" /\ cmp_report # <<>>
    /\ \A k \in Requested :
         cmp_files[k] = <<>> =>
           \E i \in 1..Len(cmp_report[1].results) :
             LET r == cmp_report[1].results[i]
             IN /\ ResultKey(r) = k
                /\ r.features_correct = 0 /\ r.errors # <<>>

(***************************************************************************)
(* One call of the scorer, _score_feature, on the values an extraction     *)
(* validated against AugmentedCompany (src/src/models.py 12-125) can hold  *)
(* and on ground-truth values as _normalize_gt_value returns them.         *)
(***************************************************************************)
\* The values of a feature in an extraction: None after a failed extraction,
\* otherwise what the field's annotation admits.
Extractable(feat_name) ==
  {NoneValue} \cup
  CASE FEATURE_TYPES[feat_name] = "literal_bool" ->
         {Text(<<"true">>), Text(<<"false">>), Text(<<"unknown">>)}
    [] FEATURE_TYPES[feat_name] = "literal_enum" ->
         {Text(<<"B2B">>), Text(<<"SMB">>), Text(<<"unknown">>)}
    [] FEATURE_TYPES[feat_name] = "list" ->
         {ListOf(<<>>), ListOf(<< <<>> >>), ListOf(<< <<"ai">> >>),
          ListOf(<< <<"ai">>, <<"saas">> >>)}
    [] OTHER ->
         {Text(<<>>), Text(<<" ">>), Text(<<"unknown">>), Text(<<"Unknown">>),
          Text(<<"null">>), Text(<<"en">>), Text(<<"fr">>)}

\* The values of a feature that is present in the ground truth.
GroundTruthValues(feat_name) ==
  CASE FEATURE_TYPES[feat_name] = "literal_bool" ->
         {Text(<<"true">>), Text(<<"false">>)}
    [] FEATURE_TYPES[feat_name] = "literal_enum" ->
         {Text(<<"b2b">>), Text(<<"smb">>)}
    [] FEATURE_TYPES[feat_name] = "list" ->
         {ListOf(<< <<"ai">> >>), ListOf(<< <<"ai">>, <<"saas">> >>),
          ListOf(<< <<"saas">>, <<"ai">>, <<"bio">> >>)}
    [] OTHER -> {Text(<<"en">>), Text(<<"fr">>)}

ScoredFeatures == {"early_access", "product_category", "language", "industries"}

ScoreInputs ==
  UNION {
    {[feat_name |-> f, extracted |-> x, ground_truth |-> NoneValue,
      gt_present |-> FALSE] : x \in Extractable(f)}
    \cup
    {[feat_name |-> f, extracted |-> x, ground_truth |-> g,
      gt_present |-> TRUE] : x \in Extractable(f), g \in GroundTruthValues(f)}
    : f \in ScoredFeatures}

otherThanScore == <<runVars, crawlVars, rateVars, fanVars, cacheVars, cmpVars>>

InitScore == sc_in \in ScoreInputs /\ sc_out = <<>>

\* comparator.py 69: the feature is scored.
ScoreFeature ==
  /\ sc_out = <<>>
  /\ sc_out' = <<score_feature(sc_in.feat_name, sc_in.extracted,
                               sc_in.ground_truth, sc_in.gt_present)>>
  /\ UNCHANGED sc_in
  /\ UNCHANGED otherThanScore

NextScore == ScoreFeature

InitE == InitScore /\ NoRun /\ NoCrawl /\ NoRate /\ NoFan /\ NoCache /\ NoCompare

SpecScore == InitE /\ [][NextScore]_vars

(***************************************************************************)
(* Properties of the scorer.                                               *)
(***************************************************************************)
\* The extraction is absent as the presence test judges it: null, empty or
\* "unknown".
ExtractionAbsent == ~is_present_value(sc_in.extracted)

\* C35: for every feature, when the extraction and the ground truth are both
\* absent the score is 1.0, and when the ground truth is present and the
\* extraction is absent the score is 0.0.
C35_ScorerAnchors ==
  (sc_out # <<>> /\ ExtractionAbsent) =>
    sc_out[1] = IF sc_in.gt_present THEN 0 ELSE 10

(***************************************************************************)
(* One run of the pipeline over an output directory that earlier runs have *)
(* filled, some of them with crawls that fetched part of a site.           *)
(***************************************************************************)
\* The artifact a live run with saving leaves for a combination whose crawl
\* had the given outcome.
LeftArtifact(c, llm, crawled) ==
  LET cr == CrawlResultOf(DomainA, c, crawled, 0)
  IN artifact_payload(cr, parse(cr), extract(parse(cr), llm, "good", 0))

\* The output directories earlier runs can leave: every combination has no
\* artifact, or the artifact of a complete or of a partial crawl.
LeftStores ==
  [Keys -> {<<>>} \cup
           {<<LeftArtifact(c, l, o)>> :
              c \in RangeOf(CrawlerList), l \in {"claude", "openai"},
              o \in {"ok", "partial"}}]

InitItems ==
  /\ files \in {fs \in LeftStores :
                  \A k \in Keys :
                    fs[k] # <<>> => fs[k][1].crawler = k[2] /\ fs[k][1].llm = k[3]}
  /\ pc = "idle" /\ runNo = MaxRuns - 1
  /\ use_cache_only = TRUE /\ save_intermediate = FALSE
  /\ llms = <<"claude">>
  /\ dIdx = 1 /\ crawl_results = <<>> /\ itemIdx = 1
  /\ parsed = <<>> /\ llmIdx = 1
  /\ all_results = <<>> /\ report = <<>>
  /\ extractCalls = [k \in Keys |-> 0]
  /\ runExtract = [k \in Keys |-> 0]
  /\ runCtor = 0 /\ runFetch = [c \in RangeOf(CrawlerList) |-> 0]
  /\ used = [k \in Keys |-> <<>>]
  /\ hadArtifact = {} /\ raisedAt = {}
  /\ firstSaved = files
  /\ allSaved = TRUE

InitI == InitItems /\ NoCrawl /\ NoRate /\ NoFan /\ NoCache /\ NoCompare /\ NoScore

\* Phase 1, live, where a backend may also return content with an error.
Phase1LiveAny == Phase1LiveFrom(BackendOutcomes \cup {"partial"})

NextItems ==
  \/ StartRun
  \/ Phase1LiveAny
  \/ Phase1CacheOnly
  \/ ItemCrawlFailed
  \/ ItemParse
  \/ ComboCached
  \/ ComboExtractorInitFails
  \/ ComboLive
  \/ ComboSaveFails
  \/ BuildReport

SpecItems == InitI /\ [][NextItems]_vars

(***************************************************************************)
(* Properties of the loop over a domain's crawl results.                   *)
(***************************************************************************)
\* The zero-accuracy results of a failed crawl: one per requested extractor,
\* in the order of llms, each with an error that starts with "Crawl failed".
CrawlFailedResults(rs, c) ==
  /\ Len(rs) = Len(llms)
  /\ \A i \in 1..Len(rs) :
       /\ rs[i].crawler = c /\ rs[i].llm = llms[i]
       /\ rs[i].features_found = 0 /\ rs[i].features_correct = 0
       /\ Len(rs[i].errors) = 1 /\ rs[i].errors[1].msg = "Crawl failed:"

\* C39: a crawl result with an error and empty content is given no parse
\* call, no extractor call and no read of an extractor's artifact, and exactly
\* one zero-accuracy result per requested extractor whose error starts with
\* "Crawl failed"; a crawl result with an error and content goes on to
\* parsing and extraction and is given no such result.
C39_FailedCrawlSkipped ==
  [][(pc = "items" /\ CurItem.crawl.error # None) =>
       IF CurItem.crawl.raw_content = ""
       THEN /\ Len(all_results') = Len(all_results) + Len(llms)
            /\ SubSeq(all_results', 1, Len(all_results)) = all_results
            /\ CrawlFailedResults(
                 SubSeq(all_results', Len(all_results) + 1, Len(all_results')),
                 CurItem.crawl.crawler)
            /\ pc' # "llms" /\ parsed' = parsed
            /\ runExtract' = runExtract /\ extractCalls' = extractCalls
            /\ used' = used
       ELSE /\ pc' = "llms" /\ llmIdx' = 1
            /\ parsed' # <<>> /\ parsed'[1].crawler = CurItem.crawl.crawler
            /\ all_results' = all_results]_vars

\* A run has given one backend its "Crawl failed" results and has extracted
\* from the content of a backend whose crawl result has an error.
C39_Witness ==
  /\ \E i \in 1..Len(all_results) :
       /\ all_results[i].errors # <<>>
       /\ all_results[i].errors[1].msg = "Crawl failed:"
  /\ \E k \in Keys :
       /\ used[k] # <<>>
       /\ used[k][1].crawl.error # None /\ used[k][1].crawl.raw_content # ""

====
